---- MODULE Spec2Model ----
(***************************************************************************)
(* A state-machine model of circumferenceChecker: the main loop that reads *)
(* graph6 lines, the graph6 decoder, the four backtracking measures        *)
(* (circumference, length, longest induced cycle, longest induced path)    *)
(* with their call stacks made explicit, and the output filter.            *)
(***************************************************************************)
EXTENDS Integers, Sequences, FiniteSets, TLC

(***************************************************************************)
(* Bounds of the model and program constants.                              *)
(***************************************************************************)
\* Largest vertex count of the exhaustively enumerated input graphs.
MaxN == 4

\* Largest vertex count of the graphs the filter options are run on.
MaxOrder == 3

\* Largest number of lines on stdin in the runs over several lines.
MaxLines == 2

\* Largest number of options on the command line.
MaxArgs == 3

\* Width of the bitset the program is built with (USE_64_BIT).
BITSETSIZE == 64

\* The newline byte that ends a line and the NUL byte that ends a C string.
NEWLINE == 10

NUL == 0

(***************************************************************************)
(* Bitsets: sets of vertex indices.  union, intersection and difference    *)
(* are \cup, \cap and \ ; the other operations are named as in the code.   *)
(***************************************************************************)
EMPTY == {}

Max(S) == CHOOSE x \in S : \A y \in S : y <= x

Min(S) == CHOOSE x \in S : \A y \in S : x <= y

\* next(s, i): the smallest element of s greater than i, -1 when none.
next(s, i) ==
    LET after == {x \in s : x > i}
    IN  IF after = {} THEN -1 ELSE Min(after)

\* complement(s, n) = {0..n-1} \ s
complement(s, n) == (0 .. (n - 1)) \ s

size(s) == Cardinality(s)

(***************************************************************************)
(* graph6 decoding (readGraph6.c).  A line is a sequence of byte values;   *)
(* reading past its end yields the NUL terminator.                         *)
(***************************************************************************)
charAt(str, index) == IF index + 1 \in DOMAIN str THEN str[index + 1] ELSE NUL

strlen(str) ==
    IF \E k \in DOMAIN str : str[k] = NUL
    THEN Min({k \in DOMAIN str : str[k] = NUL}) - 1
    ELSE Len(str)

Pow2(k) == 2 ^ k

bitSet(character, b) == (character \div Pow2(b)) % 2 = 1

\* A variant of prev that starts one bit too low.
prev_oneBelow(character, current) ==
    LET below == {b \in 0 .. (current - 2) : (character \div (2 ^ b)) % 2 = 1}
    IN  IF character = 0 \/ below = {} THEN -1
        ELSE CHOOSE x \in below : \A y \in below : y <= x

\* prev(character, current): the highest set bit of character below bit
\* current, -1 when there is none (character is a 6-bit value here).
prev(character, current) ==
    LET below == {b \in 0 .. (current - 1) : bitSet(character, b)}
    IN  IF character = 0 \/ below = {} THEN -1 ELSE Max(below)

\* The 18-bit and 36-bit forms: groups of six bits, most significant first.
RECURSIVE sixBitGroups(_, _, _)
sixBitGroups(str, index, i) ==
    IF i < 0 THEN 0
    ELSE (charAt(str, index) - 63) * Pow2(i * 6)
         + sixBitGroups(str, index + 1, i - 1)

\* The text getNumberOfVertices prints with printf, on stdout:
\* "Error: String is empty.\n"
ErrorStringIsEmpty ==
    <<69, 114, 114, 111, 114, 58, 32, 83, 116, 114, 105, 110, 103, 32,
      105, 115, 32, 101, 109, 112, 116, 121, 46, 10>>

\* "Error: Invalid start of graphstring.\n"
ErrorInvalidStart ==
    <<69, 114, 114, 111, 114, 58, 32, 73, 110, 118, 97, 108, 105, 100,
      32, 115, 116, 97, 114, 116, 32, 111, 102, 32, 103, 114, 97, 112,
      104, 115, 116, 114, 105, 110, 103, 46, 10>>

\* What a call of getNumberOfVertices writes to stdout.
getNumberOfVerticesPrints(graphString) ==
    IF strlen(graphString) = 0 THEN <<ErrorStringIsEmpty>>
    ELSE IF (graphString[1] < 63 \/ graphString[1] > 126) /\ graphString[1] # 62
    THEN <<ErrorInvalidStart>>
    ELSE <<>>

getNumberOfVertices(graphString) ==
    IF strlen(graphString) = 0 THEN -1
    ELSE IF (graphString[1] < 63 \/ graphString[1] > 126) /\ graphString[1] # 62
    THEN -1
    ELSE LET index == IF graphString[1] = 62 THEN 10 ELSE 0
         IN  IF charAt(graphString, index) < 126
             THEN charAt(graphString, index) - 63
             ELSE IF charAt(graphString, index + 1) < 126
             THEN sixBitGroups(graphString, index + 1, 2)
             ELSE IF charAt(graphString, index + 2) < 126
             THEN sixBitGroups(graphString, index + 2, 5)
             ELSE -1

\* A variant of advanceColumn whose test is strict.
RECURSIVE advanceColumn_strict(_, _, _)
advanceColumn_strict(k, currentVertex, sum) ==
    IF k - sum > 0
    THEN advanceColumn_strict(k, currentVertex + 1, sum + currentVertex)
    ELSE <<currentVertex, sum>>

\* The while loop of loadGraph that advances currentVertex until the column
\* of bit number k is passed: returns <<currentVertex, sum>>.
RECURSIVE advanceColumn(_, _, _)
advanceColumn(k, currentVertex, sum) ==
    IF k - sum >= 0
    THEN advanceColumn(k, currentVertex + 1, sum + currentVertex)
    ELSE <<currentVertex, sum>>

\* A variant of loadBit that adds the neighbour on one side only.
loadBit_oneSide(st, numberOfVertices, k) ==
    LET adv == advanceColumn(k, st.currentVertex, st.sum)
        cv == adv[1] - 1
        sm == adv[2] - cv
        neighbour == k - sm
    IN  IF cv >= numberOfVertices
        THEN [st EXCEPT !.currentVertex = cv, !.sum = sm, !.oob = TRUE]
        ELSE [st EXCEPT !.currentVertex = cv, !.sum = sm,
                        !.adj = [x \in DOMAIN st.adj |->
                                   IF x = cv THEN st.adj[x] \cup {neighbour}
                                   ELSE st.adj[x]]]

\* One set bit i of the byte at index: adds the edge it stands for.
\* st = [adj, currentVertex, sum, oob]; oob records a write outside the
\* numberOfVertices entries of adjacencyList.
loadBit(st, numberOfVertices, k) ==
    LET adv == advanceColumn(k, st.currentVertex, st.sum)
        cv == adv[1] - 1
        sm == adv[2] - cv
        neighbour == k - sm
    IN  IF cv >= numberOfVertices
        THEN [st EXCEPT !.currentVertex = cv, !.sum = sm, !.oob = TRUE]
        ELSE [st EXCEPT !.currentVertex = cv, !.sum = sm,
                        !.adj = [x \in DOMAIN st.adj |->
                                   IF x = cv THEN st.adj[x] \cup {neighbour}
                                   ELSE IF x = neighbour THEN st.adj[x] \cup {cv}
                                   ELSE st.adj[x]]]

\* A variant of loadByte that numbers the bits of a byte from the lowest.
RECURSIVE loadByte_lowBitFirst(_, _, _, _, _)
loadByte_lowBitFirst(st, numberOfVertices, character, offset, i) ==
    IF i = -1 THEN st
    ELSE loadByte_lowBitFirst(loadBit(st, numberOfVertices, i + offset * 6),
                              numberOfVertices, character, offset,
                              prev(character, i))

\* The inner for loop over the set bits of one byte, highest first.
RECURSIVE loadByte(_, _, _, _, _)
loadByte(st, numberOfVertices, character, offset, i) ==
    IF i = -1 THEN st
    ELSE loadByte(loadBit(st, numberOfVertices, 5 - i + offset * 6),
                  numberOfVertices, character, offset, prev(character, i))

\* The outer for loop over the body bytes; finalChar is kept in the state.
RECURSIVE loadBytes(_, _, _, _, _)
loadBytes(st, graphString, numberOfVertices, startIndex, index) ==
    IF charAt(graphString, index) = NEWLINE THEN st
    ELSE IF charAt(graphString, index) = NUL THEN [st EXCEPT !.finalChar = NUL]
    ELSE LET character == charAt(graphString, index) - 63
         IN  loadBytes(
                 loadByte([st EXCEPT !.finalChar = charAt(graphString, index)],
                          numberOfVertices, character, index - startIndex,
                          prev(character, 6)),
                 graphString, numberOfVertices, startIndex, index + 1)

\* loadGraph: [ret, adj, oob].  ret = -1 when the line is rejected.
loadGraph(graphString, numberOfVertices) ==
    LET header == IF charAt(graphString, 0) = 62 THEN 10 ELSE 0
        st0 == [adj |-> [x \in 0 .. (numberOfVertices - 1) |-> EMPTY],
                currentVertex |-> 1, sum |-> 0, oob |-> FALSE,
                finalChar |-> NEWLINE]
    IN  IF numberOfVertices > BITSETSIZE
        THEN [ret |-> -1, adj |-> st0.adj, oob |-> FALSE]
        ELSE LET startIndex == header + (IF numberOfVertices <= 62 THEN 1 ELSE 4)
                 st == loadBytes(st0, graphString, numberOfVertices,
                                 startIndex, startIndex)
             IN  [ret |-> IF st.finalChar = NUL THEN -1 ELSE 0,
                  adj |-> st.adj, oob |-> st.oob]

(***************************************************************************)
(* Input lines.  Lines(n) are the graph6 lines of all graphs on n vertices *)
(* (one line per graph: the unused low bits of the last byte are zero).    *)
(***************************************************************************)
bodyLength(n) == ((n * (n - 1)) \div 2 + 5) \div 6

paddingBits(n) == 6 * bodyLength(n) - (n * (n - 1)) \div 2

Bodies(n) ==
    {b \in [1 .. bodyLength(n) -> 63 .. 126] :
        bodyLength(n) > 0 =>
            (b[bodyLength(n)] - 63) % Pow2(paddingBits(n)) = 0}

Lines(n) == {<<63 + n>> \o b \o <<NEWLINE>> : b \in Bodies(n)}

AllLines == UNION {Lines(n) : n \in 0 .. MaxN}

\* The lines of the scenario table: D??, D~{, DhC, Dhc, D_K and F?~vw.
LineEmpty5 == <<68, 63, 63, NEWLINE>>

LineK5 == <<68, 126, 123, NEWLINE>>

LineDhC == <<68, 104, 67, NEWLINE>>

LineDhc == <<68, 104, 99, NEWLINE>>

LineD_K == <<68, 95, 75, NEWLINE>>

LineF == <<70, 63, 126, 118, 119, NEWLINE>>

ScenarioLines == {LineEmpty5, LineK5, LineDhC, LineDhc, LineD_K, LineF}

\* The lines main is run on: every graph on up to MaxN vertices and the
\* scenario lines.
InputLines == AllLines \cup ScenarioLines

(***************************************************************************)
(* State of the program.                                                   *)
(***************************************************************************)
VARIABLES
    options,          \* struct options, filled by main's getopt loop
    input,            \* the lines of stdin not yet read
    graphString,      \* the line read last
    g,                \* struct graph: [nv, adjacencyList]
    numberOfLengths,  \* per-graph table of induced lengths met
    length,           \* the measure computed for the current graph
    frequencies,      \* table of values over all graphs
    counter,          \* graphs checked
    skippedGraphs,    \* lines skipped as invalid
    passedGraphs,     \* graphs sent to stdout
    stdout,           \* the lines written to stdout
    excludedVertices, \* parameter of getCircumference
    drv,              \* locals of the running measure's driver function
    stack,            \* frames of the recursive walker, innermost last
    pc                \* position of the program

vars == <<options, input, graphString, g, numberOfLengths, length,
          frequencies, counter, skippedGraphs, passedGraphs, stdout,
          excludedVertices, drv, stack, pc>>

zeroTable == [x \in 0 .. (BITSETSIZE - 1) |-> 0]

noGraph == [nv |-> 0, adjacencyList |-> <<>>]

\* Locals of a driver before they are assigned.
drv0 == [i |-> 0, j |-> 0, forbiddenVertices |-> EMPTY,
         includedVertices |-> EMPTY, remainingVertices |-> EMPTY,
         v |-> 0, w |-> -1, u |-> -1, longest |-> 0]

adj(x) == g.adjacencyList[x]

\* A fresh frame of a walker: its parameters, locals not yet assigned.
frame(remainingVertices, lastElemOfPath, firstElemOfPath, pathLength) ==
    [remainingVertices |-> remainingVertices,
     lastElemOfPath |-> lastElemOfPath,
     firstElemOfPath |-> firstElemOfPath,
     pathLength |-> pathLength,
     neighboursOfLastNotInPath |-> EMPTY,
     neighbour |-> -1,
     oldElemOfPath |-> -1,
     deletedVertices |-> EMPTY,
     at |-> "entry"]

top == stack[Len(stack)]

\* The stack with its innermost frame replaced / removed.
setTop(f) == [stack EXCEPT ![Len(stack)] = f]

pop == SubSeq(stack, 1, Len(stack) - 1)

(***************************************************************************)
(* main: option state after the getopt loop and the compatibility checks.  *)
(***************************************************************************)
options0 == [cycleFlag |-> FALSE, pathFlag |-> FALSE, differenceFlag |-> FALSE,
             complementFlag |-> FALSE, lengthFlag |-> FALSE,
             forbiddenLength |-> -1, output |-> -1]

\* The usage checks of main: TRUE when main goes on to read stdin.
optionsAccepted(o) ==
    /\ ~(o.forbiddenLength # -1 /\ o.output # -1)
    /\ ~(o.cycleFlag /\ o.pathFlag)
    /\ ~((o.cycleFlag \/ o.pathFlag) /\ o.lengthFlag)
    /\ ~(~o.cycleFlag /\ ~o.pathFlag /\ o.forbiddenLength # -1)

optionsNumber(o) ==
    (IF o.differenceFlag THEN 1 ELSE 0)
    + (IF o.forbiddenLength # -1 THEN 2 ELSE 0)

\* The four measure selectors, no filter option.
MeasureOptions ==
    {[options0 EXCEPT !.cycleFlag = c, !.pathFlag = p, !.lengthFlag = l] :
        <<c, p, l>> \in {<<FALSE, FALSE, FALSE>>, <<TRUE, FALSE, FALSE>>,
                         <<FALSE, TRUE, FALSE>>, <<FALSE, FALSE, TRUE>>}}

\* The state in which main enters its read loop.
mainStart(o, lines) ==
    /\ options = o
    /\ input = lines
    /\ graphString = <<>>
    /\ g = noGraph
    /\ numberOfLengths = zeroTable
    /\ length = 0
    /\ frequencies = zeroTable
    /\ counter = 0
    /\ skippedGraphs = 0
    /\ passedGraphs = 0
    /\ stdout = <<>>
    /\ excludedVertices = EMPTY
    /\ drv = drv0
    /\ stack = <<>>
    /\ pc = "read"

Init ==
    \E o \in MeasureOptions, line \in InputLines :
        mainStart(o, <<line>>)

\* Where main's if/else chain sends the graph.
measureEntry(o) ==
    IF o.cycleFlag THEN "ic_v"
    ELSE IF o.pathFlag THEN "ip_v"
    ELSE IF o.lengthFlag THEN "len_v"
    ELSE "circ_i"

\* The locals a measure's driver starts with: getCircumference counts i
\* down from nv, the other three count v up from 0 with a longest of 0.
driverStart(o, nv) ==
    IF measureEntry(o) = "circ_i" THEN [drv0 EXCEPT !.i = nv] ELSE drv0

\* A variant of lengthsAtCall that keeps the table of the graph before.
lengthsAtCall_kept(table) == table

\* numberOfLengths is declared, with an all-zero initializer, inside the
\* loop body: whatever the table held for the graph before is gone.
lengthsAtCall(table) == zeroTable

\* One turn of main's while loop up to the call of the measure: getline,
\* getNumberOfVertices, loadGraph.  An empty stdin ends the loop.
ReadLine ==
    /\ pc = "read"
    /\ UNCHANGED <<options, frequencies, passedGraphs,
                   excludedVertices, stack, length>>
    /\ IF input = <<>>
       THEN /\ pc' = "done"
            /\ UNCHANGED <<input, graphString, g, numberOfLengths, counter,
                           skippedGraphs, drv, stdout>>
       ELSE LET str == Head(input)
                nv == getNumberOfVertices(str)
                loaded == loadGraph(str, nv)
            IN  /\ input' = Tail(input)
                /\ graphString' = str
                /\ stdout' = stdout \o getNumberOfVerticesPrints(str)
                /\ IF nv = -1 \/ nv > BITSETSIZE - 1
                   THEN /\ skippedGraphs' = skippedGraphs + 1
                        /\ pc' = "read"
                        /\ UNCHANGED <<g, numberOfLengths, counter, drv>>
                   ELSE IF nv < 0 \/ loaded.oob
                   THEN \* a negative array length, or a write outside
                        \* adjacencyList: undefined behaviour
                        /\ pc' = "undefined"
                        /\ UNCHANGED <<g, numberOfLengths, counter,
                                       skippedGraphs, drv>>
                   ELSE IF loaded.ret = -1
                   THEN /\ skippedGraphs' = skippedGraphs + 1
                        /\ pc' = "read"
                        /\ UNCHANGED <<g, numberOfLengths, counter, drv>>
                   ELSE /\ g' = [nv |-> nv, adjacencyList |-> loaded.adj]
                        /\ counter' = counter + 1
                        /\ numberOfLengths' = lengthsAtCall(numberOfLengths)
                        /\ drv' = driverStart(options, nv)
                        /\ pc' = measureEntry(options)
                        /\ UNCHANGED skippedGraphs

(***************************************************************************)
(* Circumference: getCircumference, findLowestDegreeVertex and the walker  *)
(* canBeCycleOfLength.                                                     *)
(***************************************************************************)
\* The forEachAfterIndex loop of findLowestDegreeVertex: u runs over the
\* elements of includedVertices above the first one, in increasing order.
RECURSIVE lowestFrom(_, _, _, _)
lowestFrom(includedVertices, u, lowestDegree, start) ==
    IF u >= g.nv THEN start
    ELSE IF u \notin includedVertices
    THEN lowestFrom(includedVertices, u + 1, lowestDegree, start)
    ELSE LET degree == size(adj(u) \cap includedVertices)
         IN  IF lowestDegree > degree
             THEN lowestFrom(includedVertices, u + 1, degree, u)
             ELSE lowestFrom(includedVertices, u + 1, lowestDegree, start)

findLowestDegreeVertex(includedVertices) ==
    LET start == next(includedVertices, -1)
    IN  lowestFrom(includedVertices, start + 1, size(adj(start)), start)

\* The included neighbours of the pivot v, over which w and u range.
pivotNeighbours == adj(drv.v) \cap drv.includedVertices

\* The cycle length asked of the walker when the driver tries length i.
cycleLength == drv.i - size(excludedVertices)

\* for (i = nv; i > 2; i--): start the inner loop, or return 0.
getCircumference_i ==
    /\ pc = "circ_i"
    /\ UNCHANGED <<options, input, graphString, g, numberOfLengths,
                   frequencies, counter, skippedGraphs, passedGraphs, stdout,
                   excludedVertices, stack>>
    /\ IF drv.i > 2
       THEN /\ drv' = [drv EXCEPT !.forbiddenVertices = excludedVertices,
                                  !.j = g.nv - drv.i]
            /\ pc' = "circ_j"
            /\ UNCHANGED length
       ELSE /\ length' = 0
            /\ pc' = "output"
            /\ UNCHANGED drv

\* for (j = nv - i; j >= 0; j--): choose the pivot, or go to the next i.
getCircumference_j ==
    /\ pc = "circ_j"
    /\ UNCHANGED <<options, input, graphString, g, numberOfLengths,
                   frequencies, counter, skippedGraphs, passedGraphs, stdout,
                   excludedVertices, stack>>
    /\ IF drv.j >= 0
       THEN LET includedVertices == complement(drv.forbiddenVertices, g.nv)
            IN  IF includedVertices = EMPTY
                THEN /\ length' = 0
                     /\ pc' = "output"
                     /\ UNCHANGED drv
                ELSE LET v == findLowestDegreeVertex(includedVertices)
                     IN  /\ drv' = [drv EXCEPT
                                      !.includedVertices = includedVertices,
                                      !.v = v,
                                      !.w = next(adj(v) \cap includedVertices,
                                                 -1)]
                         /\ pc' = "circ_w"
                         /\ UNCHANGED length
       ELSE /\ drv' = [drv EXCEPT !.i = drv.i - 1]
            /\ pc' = "circ_i"
            /\ UNCHANGED length

\* forEach(w, ...): start the loop over u > w, or forbid v and decrease j.
getCircumference_w ==
    /\ pc = "circ_w"
    /\ UNCHANGED <<options, input, graphString, g, numberOfLengths, length,
                   frequencies, counter, skippedGraphs, passedGraphs, stdout,
                   excludedVertices, stack>>
    /\ IF drv.w # -1
       THEN /\ drv' = [drv EXCEPT !.u = next(pivotNeighbours, drv.w)]
            /\ pc' = "circ_u"
       ELSE /\ drv' = [drv EXCEPT
                         !.forbiddenVertices = drv.forbiddenVertices \cup {drv.v},
                         !.j = drv.j - 1]
            /\ pc' = "circ_j"

\* The seed path w v u of getCircumference: remaining vertices, last = u,
\* first = w, three vertices.
circumferenceSeed ==
    frame(drv.includedVertices \ {drv.v, drv.u, drv.w}, drv.u, drv.w, 3)

\* forEachAfterIndex(u, ..., w): call the walker on the seed, or next w.
getCircumference_u ==
    /\ pc = "circ_u"
    /\ UNCHANGED <<options, input, graphString, g, numberOfLengths, length,
                   frequencies, counter, skippedGraphs, passedGraphs, stdout,
                   excludedVertices>>
    /\ IF drv.u # -1
       THEN /\ stack' = <<circumferenceSeed>>
            /\ pc' = "circ_walk"
            /\ UNCHANGED drv
       ELSE /\ drv' = [drv EXCEPT !.w = next(pivotNeighbours, drv.w)]
            /\ pc' = "circ_w"
            /\ UNCHANGED stack

\* The first test of canBeCycleOfLength: the path closes to a cycle of the
\* required length.
isCycleOfLength(f, requiredLength) ==
    /\ f.pathLength = requiredLength
    /\ f.lastElemOfPath \in adj(f.firstElemOfPath)

\* The second test: no remaining vertex is adjacent to the first element.
cannotBeClosed(f) == adj(f.firstElemOfPath) \cap f.remainingVertices = EMPTY

\* The frame at the start of its forEach loop.
enterLoop(f) ==
    LET nbrs == adj(f.lastElemOfPath) \cap f.remainingVertices
    IN  [f EXCEPT !.neighboursOfLastNotInPath = nbrs,
                  !.neighbour = next(nbrs, -1),
                  !.at = "loop"]

\* A variant of cycleDescend that forgets to remove the neighbour.
cycleDescend_keepNeighbour(f) ==
    [f EXCEPT !.oldElemOfPath = f.lastElemOfPath,
              !.lastElemOfPath = f.neighbour,
              !.at = "call"]

\* The caller's frame while the call for its current neighbour runs.
cycleDescend(f) ==
    [f EXCEPT !.oldElemOfPath = f.lastElemOfPath,
              !.remainingVertices = f.remainingVertices \ {f.neighbour},
              !.lastElemOfPath = f.neighbour,
              !.at = "call"]

\* A variant of cycleBacktrack that does not move to the next neighbour.
cycleBacktrack_sameNeighbour(f) ==
    [f EXCEPT !.remainingVertices = f.remainingVertices \cup {f.lastElemOfPath},
              !.lastElemOfPath = f.oldElemOfPath,
              !.at = "loop"]

\* The caller's frame after a call returned false: the vertex is put back
\* and the loop moves to the next neighbour.
cycleBacktrack(f) ==
    [f EXCEPT !.remainingVertices = f.remainingVertices \cup {f.lastElemOfPath},
              !.lastElemOfPath = f.oldElemOfPath,
              !.neighbour = next(f.neighboursOfLastNotInPath, f.neighbour),
              !.at = "loop"]

\* The call made from frame f (already descended).
calleeOf(f) ==
    frame(f.remainingVertices, f.lastElemOfPath, f.firstElemOfPath,
          f.pathLength + 1)

\* canBeCycleOfLength returns false from the innermost frame: to its
\* caller's loop, or to getCircumference's loop over u.
cycleReturnFalse ==
    IF Len(stack) = 1
    THEN /\ stack' = <<>>
         /\ drv' = [drv EXCEPT !.u = next(pivotNeighbours, drv.u)]
         /\ pc' = "circ_u"
         /\ UNCHANGED length
    ELSE /\ stack' = [pop EXCEPT ![Len(stack) - 1] =
                          cycleBacktrack(stack[Len(stack) - 1])]
         /\ UNCHANGED <<drv, pc, length>>

\* Entry of canBeCycleOfLength.  A true result is returned through every
\* frame and getCircumference returns i.
canBeCycleOfLength_entry ==
    /\ pc = "circ_walk"
    /\ top.at = "entry"
    /\ UNCHANGED <<options, input, graphString, g, numberOfLengths,
                   frequencies, counter, skippedGraphs, passedGraphs, stdout,
                   excludedVertices>>
    /\ IF isCycleOfLength(top, cycleLength)
       THEN /\ length' = drv.i
            /\ stack' = <<>>
            /\ pc' = "output"
            /\ UNCHANGED drv
       ELSE IF cannotBeClosed(top)
       THEN cycleReturnFalse
       ELSE /\ stack' = setTop(enterLoop(top))
            /\ UNCHANGED <<drv, pc, length>>

\* One turn of the forEach loop of canBeCycleOfLength: the recursive call
\* for the next neighbour, or return false after the last one.
canBeCycleOfLength_loop ==
    /\ pc = "circ_walk"
    /\ top.at = "loop"
    /\ UNCHANGED <<options, input, graphString, g, numberOfLengths,
                   frequencies, counter, skippedGraphs, passedGraphs, stdout,
                   excludedVertices>>
    /\ IF top.neighbour # -1
       THEN /\ stack' = Append(setTop(cycleDescend(top)),
                               calleeOf(cycleDescend(top)))
            /\ UNCHANGED <<drv, pc, length>>
       ELSE cycleReturnFalse

(***************************************************************************)
(* Graph length: getLength and the walker searchLongestSuperPath.          *)
(***************************************************************************)
\* Number of edges of a path on `order` vertices, 0 when there is no path.
edgesOf(order) == IF order - 1 < 0 THEN 0 ELSE order - 1

\* for (v = 0; v < nv; v++): start the loop over w, or return.
getLength_v ==
    /\ pc = "len_v"
    /\ UNCHANGED <<options, input, graphString, g, numberOfLengths,
                   frequencies, counter, skippedGraphs, passedGraphs, stdout,
                   excludedVertices, stack>>
    /\ IF drv.v < g.nv
       THEN /\ drv' = [drv EXCEPT
                         !.remainingVertices = complement({drv.v}, g.nv),
                         !.w = next(adj(drv.v), -1)]
            /\ pc' = "len_w"
            /\ UNCHANGED length
       ELSE /\ length' = edgesOf(drv.longest)
            /\ pc' = "output"
            /\ UNCHANGED drv

\* forEach(w, adj[v]): remove w and call the walker on the path v w.
getLength_w ==
    /\ pc = "len_w"
    /\ UNCHANGED <<options, input, graphString, g, numberOfLengths, length,
                   frequencies, counter, skippedGraphs, passedGraphs, stdout,
                   excludedVertices>>
    /\ IF drv.w # -1
       THEN /\ drv' = [drv EXCEPT
                         !.remainingVertices = drv.remainingVertices \ {drv.w}]
            /\ stack' = <<frame(drv.remainingVertices \ {drv.w},
                                drv.w, drv.v, 2)>>
            /\ pc' = "len_walk"
       ELSE /\ drv' = [drv EXCEPT !.v = drv.v + 1]
            /\ pc' = "len_v"
            /\ UNCHANGED stack

\* The caller's frame while the call for its current neighbour runs: the
\* old last element is what removeElement is applied to.
pathDescend(f) ==
    [f EXCEPT !.oldElemOfPath = f.lastElemOfPath,
              !.remainingVertices = f.remainingVertices \ {f.lastElemOfPath},
              !.lastElemOfPath = f.neighbour,
              !.at = "call"]

\* The caller's frame after the call returned.
pathBacktrack(f) ==
    [f EXCEPT !.remainingVertices = f.remainingVertices \cup {f.oldElemOfPath},
              !.lastElemOfPath = f.oldElemOfPath,
              !.neighbour = next(f.neighboursOfLastNotInPath, f.neighbour),
              !.at = "loop"]

\* searchLongestSuperPath returns from the innermost frame, with the new
\* value of *orderOfLongestPath.
pathReturn(longest) ==
    IF Len(stack) = 1
    THEN /\ stack' = <<>>
         /\ drv' = [drv EXCEPT
                      !.longest = longest,
                      !.remainingVertices = drv.remainingVertices \cup {drv.w},
                      !.w = next(adj(drv.v), drv.w)]
         /\ pc' = "len_w"
    ELSE /\ stack' = [pop EXCEPT ![Len(stack) - 1] =
                          pathBacktrack(stack[Len(stack) - 1])]
         /\ drv' = [drv EXCEPT !.longest = longest]
         /\ UNCHANGED pc

\* A variant of longestPossibleFound that is off by one vertex.
longestPossibleFound_offByOne == drv.longest = g.nv - 1

\* The early exit: a path on all nv vertices has been found.
longestPossibleFound == drv.longest = g.nv

\* max(*orderOfLongest, orderOfPath)
recordOrder(longest, orderOfPath) ==
    IF orderOfPath > longest THEN orderOfPath ELSE longest

\* Entry of searchLongestSuperPath.
searchLongestSuperPath_entry ==
    /\ pc = "len_walk"
    /\ top.at = "entry"
    /\ UNCHANGED <<options, input, graphString, g, numberOfLengths, length,
                   frequencies, counter, skippedGraphs, passedGraphs, stdout,
                   excludedVertices>>
    /\ IF longestPossibleFound
       THEN pathReturn(drv.longest)
       ELSE /\ drv' = [drv EXCEPT
                         !.longest = recordOrder(drv.longest, top.pathLength)]
            /\ stack' = setTop(enterLoop(top))
            /\ UNCHANGED pc

\* One turn of the forEach loop of searchLongestSuperPath.
searchLongestSuperPath_loop ==
    /\ pc = "len_walk"
    /\ top.at = "loop"
    /\ UNCHANGED <<options, input, graphString, g, numberOfLengths, length,
                   frequencies, counter, skippedGraphs, passedGraphs, stdout,
                   excludedVertices>>
    /\ IF top.neighbour # -1
       THEN /\ stack' = Append(setTop(pathDescend(top)),
                               calleeOf(pathDescend(top)))
            /\ UNCHANGED <<drv, pc>>
       ELSE pathReturn(drv.longest)

(***************************************************************************)
(* Longest induced cycle: getLongestInducedCycleLength and the walker      *)
(* lengthOfLongestInducedSuperCycle.                                       *)
(***************************************************************************)
\* The neighbours of v over which w and u range (every vertex is included).
cycleNeighbours == adj(drv.v) \cap complement(EMPTY, g.nv)

\* for (v = 0; v < nv; v++): start the loop over w > v, or return.
getLongestInducedCycleLength_v ==
    /\ pc = "ic_v"
    /\ UNCHANGED <<options, input, graphString, g, numberOfLengths,
                   frequencies, counter, skippedGraphs, passedGraphs, stdout,
                   excludedVertices, stack>>
    /\ IF drv.v < g.nv
       THEN /\ drv' = [drv EXCEPT
                         !.includedVertices = complement(EMPTY, g.nv),
                         !.w = next(cycleNeighbours, drv.v)]
            /\ pc' = "ic_w"
            /\ UNCHANGED length
       ELSE /\ length' = drv.longest
            /\ pc' = "output"
            /\ UNCHANGED drv

\* forEachAfterIndex(w, ..., v): start the loop over u > w, or next v.
getLongestInducedCycleLength_w ==
    /\ pc = "ic_w"
    /\ UNCHANGED <<options, input, graphString, g, numberOfLengths, length,
                   frequencies, counter, skippedGraphs, passedGraphs, stdout,
                   excludedVertices, stack>>
    /\ IF drv.w # -1
       THEN /\ drv' = [drv EXCEPT !.u = next(cycleNeighbours, drv.w)]
            /\ pc' = "ic_u"
       ELSE /\ drv' = [drv EXCEPT !.v = drv.v + 1]
            /\ pc' = "ic_v"

\* A variant of inducedCycleSeed that keeps the other neighbours of v.
inducedCycleSeed_keepNeighbours ==
    frame(drv.includedVertices \ {drv.v, drv.u, drv.w}, drv.u, drv.w, 3)

\* The seed path w v u of getLongestInducedCycleLength: v and all its
\* neighbours are taken out of the remaining vertices.
inducedCycleSeed ==
    frame(drv.includedVertices \ (adj(drv.v) \cup {drv.v}), drv.u, drv.w, 3)

\* forEachAfterIndex(u, ..., w): call the walker on the seed, or next w.
getLongestInducedCycleLength_u ==
    /\ pc = "ic_u"
    /\ UNCHANGED <<options, input, graphString, g, numberOfLengths, length,
                   frequencies, counter, skippedGraphs, passedGraphs, stdout,
                   excludedVertices>>
    /\ IF drv.u # -1
       THEN /\ stack' = <<inducedCycleSeed>>
            /\ drv' = [drv EXCEPT
                         !.remainingVertices = inducedCycleSeed.remainingVertices]
            /\ pc' = "ic_walk"
       ELSE /\ drv' = [drv EXCEPT !.w = next(cycleNeighbours, drv.w)]
            /\ pc' = "ic_w"
            /\ UNCHANGED stack

\* The closure test of lengthOfLongestInducedSuperCycle.
isCycle(f) == f.lastElemOfPath \in adj(f.firstElemOfPath)

\* The caller's frame while the call for its current neighbour runs: all
\* neighbours of the old last element leave the remaining vertices.
inducedCycleDescend(f) ==
    LET remaining == f.remainingVertices \ adj(f.lastElemOfPath)
    IN  [f EXCEPT !.oldElemOfPath = f.lastElemOfPath,
                  !.remainingVertices = remaining,
                  !.deletedVertices = adj(f.lastElemOfPath) \ remaining,
                  !.lastElemOfPath = f.neighbour,
                  !.at = "call"]

\* The caller's frame after the call returned.
inducedCycleBacktrack(f) ==
    [f EXCEPT !.remainingVertices = f.remainingVertices \cup f.deletedVertices,
              !.lastElemOfPath = f.oldElemOfPath,
              !.neighbour = next(f.neighboursOfLastNotInPath, f.neighbour),
              !.at = "loop"]

\* lengthOfLongestInducedSuperCycle returns from the innermost frame.
inducedCycleReturn ==
    IF Len(stack) = 1
    THEN /\ stack' = <<>>
         /\ drv' = [drv EXCEPT !.u = next(cycleNeighbours, drv.u)]
         /\ pc' = "ic_u"
    ELSE /\ stack' = [pop EXCEPT ![Len(stack) - 1] =
                          inducedCycleBacktrack(stack[Len(stack) - 1])]
         /\ UNCHANGED <<drv, pc>>

\* A variant of countLength that marks the index instead of counting.
countLength_mark(table, index) == [table EXCEPT ![index] = 1]

\* numberOfLengths[index]++
countLength(table, index) == [table EXCEPT ![index] = table[index] + 1]

\* Entry of lengthOfLongestInducedSuperCycle.
lengthOfLongestInducedSuperCycle_entry ==
    /\ pc = "ic_walk"
    /\ top.at = "entry"
    /\ UNCHANGED <<options, input, graphString, g, length,
                   frequencies, counter, skippedGraphs, passedGraphs, stdout,
                   excludedVertices>>
    /\ IF isCycle(top)
       THEN /\ numberOfLengths' = countLength(numberOfLengths, top.pathLength)
            /\ IF Len(stack) = 1
               THEN /\ stack' = <<>>
                    /\ drv' = [drv EXCEPT
                                 !.longest = recordOrder(drv.longest,
                                                         top.pathLength),
                                 !.u = next(cycleNeighbours, drv.u)]
                    /\ pc' = "ic_u"
               ELSE /\ stack' = [pop EXCEPT ![Len(stack) - 1] =
                                   inducedCycleBacktrack(stack[Len(stack) - 1])]
                    /\ drv' = [drv EXCEPT
                                 !.longest = recordOrder(drv.longest,
                                                         top.pathLength)]
                    /\ UNCHANGED pc
       ELSE IF cannotBeClosed(top)
       THEN /\ inducedCycleReturn
            /\ UNCHANGED numberOfLengths
       ELSE /\ stack' = setTop(enterLoop(top))
            /\ UNCHANGED <<drv, pc, numberOfLengths>>

\* One turn of the forEach loop of lengthOfLongestInducedSuperCycle.
lengthOfLongestInducedSuperCycle_loop ==
    /\ pc = "ic_walk"
    /\ top.at = "loop"
    /\ UNCHANGED <<options, input, graphString, g, numberOfLengths, length,
                   frequencies, counter, skippedGraphs, passedGraphs, stdout,
                   excludedVertices>>
    /\ IF top.neighbour # -1
       THEN /\ stack' = Append(setTop(inducedCycleDescend(top)),
                               calleeOf(inducedCycleDescend(top)))
            /\ UNCHANGED <<drv, pc>>
       ELSE inducedCycleReturn

(***************************************************************************)
(* Longest induced path: getLongestInducedPathLength and the walker        *)
(* searchLongestInducedSuperPath.                                          *)
(***************************************************************************)
\* for (v = 0; v < nv; v++): start the loop over w, or return.
getLongestInducedPathLength_v ==
    /\ pc = "ip_v"
    /\ UNCHANGED <<options, input, graphString, g, numberOfLengths,
                   frequencies, counter, skippedGraphs, passedGraphs, stdout,
                   excludedVertices, stack>>
    /\ IF drv.v < g.nv
       THEN /\ drv' = [drv EXCEPT
                         !.remainingVertices =
                             complement(adj(drv.v), g.nv) \ {drv.v},
                         !.w = next(adj(drv.v), -1)]
            /\ pc' = "ip_w"
            /\ UNCHANGED length
       ELSE /\ length' = edgesOf(drv.longest)
            /\ pc' = "output"
            /\ UNCHANGED drv

\* forEach(w, adj[v]): call the walker on the path v w, or next v.
getLongestInducedPathLength_w ==
    /\ pc = "ip_w"
    /\ UNCHANGED <<options, input, graphString, g, numberOfLengths, length,
                   frequencies, counter, skippedGraphs, passedGraphs, stdout,
                   excludedVertices>>
    /\ IF drv.w # -1
       THEN /\ stack' = <<frame(drv.remainingVertices, drv.w, drv.v, 2)>>
            /\ pc' = "ip_walk"
            /\ UNCHANGED drv
       ELSE /\ drv' = [drv EXCEPT !.v = drv.v + 1]
            /\ pc' = "ip_v"
            /\ UNCHANGED stack

\* A variant of inducedPathDescend that removes the neighbour only.
inducedPathDescend_neighbourOnly(f) ==
    [f EXCEPT !.oldElemOfPath = f.lastElemOfPath,
              !.remainingVertices = f.remainingVertices \ {f.neighbour},
              !.deletedVertices = {f.neighbour},
              !.lastElemOfPath = f.neighbour,
              !.at = "call"]

\* The caller's frame while the call for its current neighbour runs.
inducedPathDescend(f) ==
    LET remaining == f.remainingVertices \ adj(f.lastElemOfPath)
    IN  [f EXCEPT !.oldElemOfPath = f.lastElemOfPath,
                  !.remainingVertices = remaining,
                  !.deletedVertices = adj(f.lastElemOfPath) \ remaining,
                  !.lastElemOfPath = f.neighbour,
                  !.at = "call"]

\* The caller's frame after the call returned.
inducedPathBacktrack(f) ==
    [f EXCEPT !.remainingVertices = f.remainingVertices \cup f.deletedVertices,
              !.lastElemOfPath = f.oldElemOfPath,
              !.neighbour = next(f.neighboursOfLastNotInPath, f.neighbour),
              !.at = "loop"]

\* Entry of searchLongestInducedSuperPath: count the path, record its order.
searchLongestInducedSuperPath_entry ==
    /\ pc = "ip_walk"
    /\ top.at = "entry"
    /\ UNCHANGED <<options, input, graphString, g, length,
                   frequencies, counter, skippedGraphs, passedGraphs, stdout,
                   excludedVertices, pc>>
    /\ numberOfLengths' = countLength(numberOfLengths, top.pathLength - 1)
    /\ drv' = [drv EXCEPT !.longest = recordOrder(drv.longest, top.pathLength)]
    /\ stack' = setTop(enterLoop(top))

\* One turn of the forEach loop of searchLongestInducedSuperPath.
searchLongestInducedSuperPath_loop ==
    /\ pc = "ip_walk"
    /\ top.at = "loop"
    /\ UNCHANGED <<options, input, graphString, g, numberOfLengths, length,
                   frequencies, counter, skippedGraphs, passedGraphs, stdout,
                   excludedVertices>>
    /\ IF top.neighbour # -1
       THEN /\ stack' = Append(setTop(inducedPathDescend(top)),
                               calleeOf(inducedPathDescend(top)))
            /\ UNCHANGED <<drv, pc>>
       ELSE IF Len(stack) = 1
       THEN /\ stack' = <<>>
            /\ drv' = [drv EXCEPT !.w = next(adj(drv.v), drv.w)]
            /\ pc' = "ip_w"
       ELSE /\ stack' = [pop EXCEPT ![Len(stack) - 1] =
                            inducedPathBacktrack(stack[Len(stack) - 1])]
            /\ UNCHANGED <<drv, pc>>

(***************************************************************************)
(* The filter and the tally: shouldOutput and the end of main's loop body. *)
(***************************************************************************)
\* Case 2 of shouldOutput: the forbidden length cannot occur in the graph.
forbiddenLengthTooLong(o) ==
    \/ (o.pathFlag /\ o.forbiddenLength >= g.nv)
    \/ (o.cycleFlag /\ o.forbiddenLength > g.nv)

\* A variant of shouldOutput whose -d case ignores -C.
shouldOutput_differenceIgnoresComplement(len, table, number, o) ==
    LET complementTrue == ~o.complementFlag
        complementFalse == o.complementFlag
    IN  CASE number = 0 ->
               IF len = o.output THEN complementTrue ELSE complementFalse
          [] number = 1 -> g.nv - len = o.output
          [] number = 2 ->
               IF forbiddenLengthTooLong(o) THEN complementTrue
               ELSE IF table[o.forbiddenLength] = 0 THEN complementTrue
               ELSE complementFalse

\* shouldOutput for optionsNumber 0, 1 and 2.
shouldOutput(len, table, number, o) ==
    LET complementTrue == ~o.complementFlag
        complementFalse == o.complementFlag
    IN  CASE number = 0 ->
               IF len = o.output THEN complementTrue ELSE complementFalse
          [] number = 1 ->
               IF g.nv - len = o.output THEN complementTrue
               ELSE complementFalse
          [] number = 2 ->
               IF forbiddenLengthTooLong(o) THEN complementTrue
               ELSE IF table[o.forbiddenLength] = 0 THEN complementTrue
               ELSE complementFalse

\* What printf("%s", graphString) writes: the bytes before the first NUL.
printed(str) == SubSeq(str, 1, strlen(str))

\* A variant of tableIndex that ignores -d.
tableIndex_noDifference(o, len) == len

\* The entry of frequencies that main increments.
tableIndex(o, len) == IF o.differenceFlag THEN g.nv - len ELSE len

\* A variant of Output that tallies only the graphs it sends to stdout.
Output_tallyWhenSent ==
    /\ pc = "output"
    /\ UNCHANGED <<options, input, graphString, g, numberOfLengths, length,
                   counter, skippedGraphs, excludedVertices, drv, stack>>
    /\ IF optionsNumber(options) = 3
       THEN \* shouldOutput prints the usage and calls exit(1)
            /\ pc' = "exit"
            /\ UNCHANGED <<frequencies, passedGraphs, stdout>>
       ELSE IF \/ /\ optionsNumber(options) = 2
                  /\ ~forbiddenLengthTooLong(options)
                  /\ options.forbiddenLength \notin DOMAIN numberOfLengths
               \/ tableIndex(options, length) \notin DOMAIN frequencies
       THEN \* a read or a write outside a table: undefined behaviour
            /\ pc' = "undefined"
            /\ UNCHANGED <<frequencies, passedGraphs, stdout>>
       ELSE /\ IF shouldOutput(length, numberOfLengths,
                               optionsNumber(options), options)
               THEN /\ passedGraphs' = passedGraphs + 1
                    /\ stdout' = Append(stdout, printed(graphString))
                    /\ frequencies' = countLength(frequencies,
                                                  tableIndex(options, length))
               ELSE UNCHANGED <<passedGraphs, stdout, frequencies>>
            /\ pc' = "read"

\* shouldOutput, printf and the frequency table, after the measure returned.
Output ==
    /\ pc = "output"
    /\ UNCHANGED <<options, input, graphString, g, numberOfLengths, length,
                   counter, skippedGraphs, excludedVertices, drv, stack>>
    /\ IF optionsNumber(options) = 3
       THEN \* shouldOutput prints the usage and calls exit(1)
            /\ pc' = "exit"
            /\ UNCHANGED <<frequencies, passedGraphs, stdout>>
       ELSE IF \/ /\ optionsNumber(options) = 2
                  /\ ~forbiddenLengthTooLong(options)
                  /\ options.forbiddenLength \notin DOMAIN numberOfLengths
               \/ tableIndex(options, length) \notin DOMAIN frequencies
       THEN \* a read or a write outside a table: undefined behaviour
            /\ pc' = "undefined"
            /\ UNCHANGED <<frequencies, passedGraphs, stdout>>
       ELSE /\ IF shouldOutput(length, numberOfLengths,
                               optionsNumber(options), options)
               THEN /\ passedGraphs' = passedGraphs + 1
                    /\ stdout' = Append(stdout, printed(graphString))
               ELSE UNCHANGED <<passedGraphs, stdout>>
            /\ frequencies' = countLength(frequencies,
                                          tableIndex(options, length))
            /\ pc' = "read"

(***************************************************************************)
(* The program.                                                            *)
(***************************************************************************)
Next ==
    \/ ReadLine
    \/ getCircumference_i
    \/ getCircumference_j
    \/ getCircumference_w
    \/ getCircumference_u
    \/ canBeCycleOfLength_entry
    \/ canBeCycleOfLength_loop
    \/ getLength_v
    \/ getLength_w
    \/ searchLongestSuperPath_entry
    \/ searchLongestSuperPath_loop
    \/ getLongestInducedCycleLength_v
    \/ getLongestInducedCycleLength_w
    \/ getLongestInducedCycleLength_u
    \/ lengthOfLongestInducedSuperCycle_entry
    \/ lengthOfLongestInducedSuperCycle_loop
    \/ getLongestInducedPathLength_v
    \/ getLongestInducedPathLength_w
    \/ searchLongestInducedSuperPath_entry
    \/ searchLongestInducedSuperPath_loop
    \/ Output

Spec == Init /\ [][Next]_vars

\* The steps of the four measures: everything between main's call of a
\* measure and the measure's return.
measureStep ==
    \/ getCircumference_i
    \/ getCircumference_j
    \/ getCircumference_w
    \/ getCircumference_u
    \/ canBeCycleOfLength_entry
    \/ canBeCycleOfLength_loop
    \/ getLength_v
    \/ getLength_w
    \/ searchLongestSuperPath_entry
    \/ searchLongestSuperPath_loop
    \/ getLongestInducedCycleLength_v
    \/ getLongestInducedCycleLength_w
    \/ getLongestInducedCycleLength_u
    \/ lengthOfLongestInducedSuperCycle_entry
    \/ lengthOfLongestInducedSuperCycle_loop
    \/ getLongestInducedPathLength_v
    \/ getLongestInducedPathLength_w
    \/ searchLongestInducedSuperPath_entry
    \/ searchLongestInducedSuperPath_loop

\* A measure that has been called keeps taking its steps: the program is
\* sequential and nothing inside a measure waits.
FairSpec == Spec /\ WF_vars(measureStep)

(***************************************************************************)
(* getCircumference called with a set of excluded vertices: the state at   *)
(* the entry of the call on a decoded graph.                               *)
(***************************************************************************)
callStart(line, nv, excluded) ==
    /\ options = options0
    /\ input = <<>>
    /\ graphString = line
    /\ g = [nv |-> nv, adjacencyList |-> loadGraph(line, nv).adj]
    /\ numberOfLengths = zeroTable
    /\ length = 0
    /\ frequencies = zeroTable
    /\ counter = 1
    /\ skippedGraphs = 0
    /\ passedGraphs = 0
    /\ stdout = <<>>
    /\ excludedVertices = excluded
    /\ drv = driverStart(options0, nv)
    /\ stack = <<>>
    /\ pc = "circ_i"

InitExcluded ==
    \E line \in InputLines :
        \E excluded \in SUBSET (0 .. (getNumberOfVertices(line) - 1)) :
            callStart(line, getNumberOfVertices(line), excluded)

NextExcluded ==
    \/ getCircumference_i
    \/ getCircumference_j
    \/ getCircumference_w
    \/ getCircumference_u
    \/ canBeCycleOfLength_entry
    \/ canBeCycleOfLength_loop
    \/ Output
    \/ ReadLine

SpecExcluded == InitExcluded /\ [][NextExcluded]_vars

(***************************************************************************)
(* main run with -c or -p together with -f #.                              *)
(***************************************************************************)
ForbiddenLengths == 0 .. (MaxN + 1)

ForbiddenOptions ==
    {[options0 EXCEPT !.cycleFlag = c, !.pathFlag = ~c,
                      !.forbiddenLength = f] :
        c \in BOOLEAN, f \in ForbiddenLengths}

InitForbidden ==
    \E o \in ForbiddenOptions, line \in InputLines :
        mainStart(o, <<line>>)

NextForbidden ==
    \/ ReadLine
    \/ getLongestInducedCycleLength_v
    \/ getLongestInducedCycleLength_w
    \/ getLongestInducedCycleLength_u
    \/ lengthOfLongestInducedSuperCycle_entry
    \/ lengthOfLongestInducedSuperCycle_loop
    \/ getLongestInducedPathLength_v
    \/ getLongestInducedPathLength_w
    \/ searchLongestInducedSuperPath_entry
    \/ searchLongestInducedSuperPath_loop
    \/ Output

SpecForbidden == InitForbidden /\ [][NextForbidden]_vars

(***************************************************************************)
(* Reference definitions: paths and cycles of the decoded graph, built     *)
(* without the walkers.  A path is a sequence of distinct vertices in      *)
(* which consecutive vertices are adjacent.                                *)
(***************************************************************************)
range(p) == {p[k] : k \in DOMAIN p}

\* Simple paths on exactly `order` vertices that avoid the set `without`.
RECURSIVE pathsOfOrder(_, _)
pathsOfOrder(order, without) ==
    IF order = 1
    THEN {<<x>> : x \in (0 .. (g.nv - 1)) \ without}
    ELSE UNION {{Append(p, x) :
                    x \in adj(p[Len(p)]) \ (range(p) \cup without)} :
                 p \in pathsOfOrder(order - 1, without)}

simplePaths(without) ==
    UNION {pathsOfOrder(order, without) : order \in 1 .. g.nv}

\* p closes to a cycle: at least three vertices, last adjacent to first.
closes(p) == Len(p) >= 3 /\ p[1] \in adj(p[Len(p)])

\* No two vertices of p are adjacent except consecutive ones.
chordlessPath(p) ==
    \A a, b \in DOMAIN p : (a + 1 < b) => p[b] \notin adj(p[a])

\* No two vertices of the cycle p are adjacent except consecutive ones,
\* where the last and the first are consecutive.
chordlessCycle(p) ==
    /\ closes(p)
    /\ \A a, b \in DOMAIN p :
         (a + 1 < b /\ ~(a = 1 /\ b = Len(p))) => p[b] \notin adj(p[a])

MaxOf(S) == IF S = {} THEN 0 ELSE Max(S)

\* Vertices of a longest cycle avoiding `without`, 0 when there is none.
longestCycle(without) ==
    MaxOf({Len(p) : p \in {q \in simplePaths(without) : closes(q)}})

\* Edges of a longest path, 0 when there is no edge.
longestPath == MaxOf({Len(p) - 1 : p \in simplePaths({})})

\* p is a simple path of g.
isSimplePath(p) ==
    /\ Len(p) >= 1
    /\ \A a \in DOMAIN p : p[a] \in 0 .. (g.nv - 1)
    /\ \A a, b \in DOMAIN p : a # b => p[a] # p[b]
    /\ \A a \in 1 .. (Len(p) - 1) : p[a + 1] \in adj(p[a])

inducedCycles == {p \in simplePaths({}) : chordlessCycle(p)}

inducedPaths == {p \in simplePaths({}) : Len(p) >= 2 /\ chordlessPath(p)}

longestInducedCycle == MaxOf({Len(p) : p \in inducedCycles})

longestInducedPath == MaxOf({Len(p) - 1 : p \in inducedPaths})

\* The vertices the running walker has on its path, in order, read off the
\* driver's locals and the frames: a frame that is inside a call holds its
\* own last element in oldElemOfPath.
frameLast(f) == IF f.at = "call" THEN f.oldElemOfPath ELSE f.lastElemOfPath

walked(prefix) == prefix \o [k \in 1 .. Len(stack) |-> frameLast(stack[k])]

\* Which measure main runs.
measure == measureEntry(options)

returned == pc = "output"

(***************************************************************************)
(* Properties.                                                             *)
(***************************************************************************)
\* C1: when getCircumference(g, EMPTY) has returned, its value is the number
\* of vertices of a longest cycle of g, and it is 0 exactly when g has no
\* cycle.
CircumferenceIsLongestCycle ==
    (returned /\ measure = "circ_i") =>
        /\ excludedVertices = EMPTY
        /\ length = longestCycle({})
        /\ (length = 0 <=> ~\E p \in simplePaths({}) : closes(p))

\* A graph on four vertices whose longest cycle is a triangle, found only
\* after a pivot that is on no triangle was forbidden.
CircumferenceWitness ==
    /\ returned /\ measure = "circ_i"
    /\ g.nv = 4 /\ length = 3
    /\ drv.forbiddenVertices # EMPTY

\* C2: when getLength has returned, its value is the number of edges of a
\* longest simple path of g (0 without an edge); and whenever the walker
\* takes its early exit, g does have a path on all nv vertices.
LengthIsLongestPath ==
    /\ (returned /\ measure = "len_v") =>
          /\ length = longestPath
          /\ ((\A x \in 0 .. (g.nv - 1) : adj(x) = EMPTY) => length = 0)
    /\ (pc = "len_walk" /\ top.at = "entry" /\ longestPossibleFound) =>
          /\ pathsOfOrder(g.nv, {}) # {}

\* The walker is entered after a path on all four vertices was found, and
\* returns at once.
LengthWitness ==
    /\ pc = "len_walk" /\ top.at = "entry" /\ longestPossibleFound
    /\ g.nv = 4 /\ top.pathLength < g.nv

\* C3: when getLongestInducedCycleLength has returned, its value is the
\* number of vertices of a largest chordless cycle of g (0 when there is
\* none); and every closure the walker records is a chordless cycle of g
\* on pathLength vertices.
InducedCycleIsLongest ==
    /\ (returned /\ measure = "ic_v") =>
          /\ length = longestInducedCycle
          /\ (inducedCycles = {} => length = 0)
    /\ (pc = "ic_walk" /\ top.at = "entry" /\ isCycle(top)) =>
          /\ isSimplePath(walked(<<top.firstElemOfPath, drv.v>>))
          /\ chordlessCycle(walked(<<top.firstElemOfPath, drv.v>>))
          /\ Len(walked(<<top.firstElemOfPath, drv.v>>)) = top.pathLength

\* A chordless cycle on four vertices is recorded by the walker.
InducedCycleWitness ==
    /\ pc = "ic_walk" /\ top.at = "entry" /\ isCycle(top)
    /\ top.pathLength = 4

\* C4: when getLongestInducedPathLength has returned, its value is the
\* number of edges of a longest chordless path of g (0 without an edge);
\* and every path the walker records is an induced path of g on orderOfPath
\* vertices.
InducedPathIsLongest ==
    /\ (returned /\ measure = "ip_v") =>
          /\ length = longestInducedPath
          /\ ((\A x \in 0 .. (g.nv - 1) : adj(x) = EMPTY) => length = 0)
    /\ (pc = "ip_walk" /\ top.at = "entry") =>
          /\ isSimplePath(walked(<<top.firstElemOfPath>>))
          /\ chordlessPath(walked(<<top.firstElemOfPath>>))
          /\ Len(walked(<<top.firstElemOfPath>>)) = top.pathLength

\* A graph whose longest path has three edges and whose longest induced
\* path has two.
InducedPathWitness ==
    /\ returned /\ measure = "ip_v"
    /\ length = 2 /\ longestPath = 3

\* C5: when getCircumference(g, excluded) has returned, its value is the
\* number of vertices of a longest cycle of the subgraph induced by the
\* vertices not excluded, and 0 if that subgraph has no cycle.
CircumferenceAvoidsExcluded ==
    (returned /\ measure = "circ_i") =>
        /\ length = longestCycle(excludedVertices)
        /\ ((~\E p \in simplePaths(excludedVertices) : closes(p)) => length = 0)

\* What the code returns instead: the order of a longest cycle avoiding the
\* excluded vertices plus the number of excluded vertices, 0 without a cycle.
CircumferenceCountsExcluded ==
    (returned /\ measure = "circ_i") =>
        length = IF longestCycle(excludedVertices) = 0 THEN 0
                 ELSE longestCycle(excludedVertices) + size(excludedVertices)

\* A measure is running: main has called it and it has not returned.
running == pc \notin {"read", "output", "done", "exit", "undefined"}

\* C6: every call of each of the four measures returns: whenever a measure
\* is running, it eventually has returned its value to main.
MeasuresTerminate == running ~> returned

\* One of the measures has returned a non-zero value on a four-vertex graph.
TerminationWitness ==
    /\ returned /\ g.nv = 4 /\ length > 0 /\ measure = "len_v"

\* The value main got from the measure it ran, one expected value for each
\* of circumference, length, induced cycle, induced path.
measured(circumference, pathEdges, inducedCycle, inducedPath) ==
    length = CASE measure = "circ_i" -> circumference
               [] measure = "len_v" -> pathEdges
               [] measure = "ic_v" -> inducedCycle
               [] measure = "ip_v" -> inducedPath

\* The edges of the decoded graph, as unordered pairs.
edges == UNION {{{x, y} : y \in adj(x)} : x \in 0 .. (g.nv - 1)}

\* The adjacency lists describe a simple undirected graph.
simpleGraph ==
    \A x \in 0 .. (g.nv - 1) :
        /\ x \notin adj(x)
        /\ \A y \in adj(x) : y \in 0 .. (g.nv - 1) /\ x \in adj(y)

hamiltonianCycle == \E p \in pathsOfOrder(g.nv, {}) : closes(p)

\* g is the cycle graph on n vertices.
isCycleGraph(n) ==
    /\ g.nv = n /\ simpleGraph
    /\ Cardinality(edges) = n
    /\ hamiltonianCycle

\* g is a cycle on n vertices with one chord added.
isCycleWithOneChord(n) ==
    /\ g.nv = n /\ simpleGraph
    /\ Cardinality(edges) = n + 1
    /\ hamiltonianCycle

\* g is the path graph on n vertices.
isPathGraph(n) ==
    /\ g.nv = n /\ simpleGraph
    /\ Cardinality(edges) = n - 1
    /\ pathsOfOrder(n, {}) # {}

\* g is the Petersen graph: ten vertices, cubic, no cycle on 3 or 4 vertices.
isPetersen ==
    /\ g.nv = 10 /\ simpleGraph
    /\ \A x \in 0 .. 9 : Cardinality(adj(x)) = 3
    /\ ~\E p \in pathsOfOrder(3, {}) \cup pathsOfOrder(4, {}) : closes(p)

\* C7 as claimed: the line DhC decodes to the cycle graph C5 and the four
\* measures on it are 5, 4, 5 and 3.
DhC_IsC5 ==
    (returned /\ graphString = LineDhC) =>
        isCycleGraph(5) /\ measured(5, 4, 5, 3)

\* C7 as amended: the line DhC decodes to the path graph on 5 vertices and
\* the four measures on it are 0, 4, 0 and 4.
DhC_IsP5 ==
    (returned /\ graphString = LineDhC) =>
        isPathGraph(5) /\ measured(0, 4, 0, 4)

\* The longest induced path of the graph of DhC has been measured.
DhC_Witness ==
    returned /\ graphString = LineDhC /\ measure = "ip_v" /\ length = 4

\* C8 as claimed: the line Dhc decodes to C5 with one chord and the four
\* measures on it are 5, 4, 4 and 3.
Dhc_IsC5WithChord ==
    (returned /\ graphString = LineDhc) =>
        isCycleWithOneChord(5) /\ measured(5, 4, 4, 3)

\* C8 as amended: the line Dhc decodes to the cycle graph C5, without a
\* chord, and the four measures on it are 5, 4, 5 and 3.
Dhc_IsC5 ==
    (returned /\ graphString = LineDhc) =>
        isCycleGraph(5) /\ measured(5, 4, 5, 3)

\* The longest induced cycle of the graph of Dhc has been measured.
Dhc_Witness ==
    returned /\ graphString = LineDhc /\ measure = "ic_v" /\ length = 5

\* C9 as claimed: the line F?~vw decodes to the Petersen graph on 10
\* vertices and the four measures on it are 9, 9, 6 and 6.
LineF_IsPetersen ==
    (returned /\ graphString = LineF) =>
        isPetersen /\ measured(9, 9, 6, 6)

\* C9 as amended: the line F?~vw decodes to a graph on 7 vertices with 14
\* edges (vertices 0..3 pairwise non-adjacent and each adjacent to 4, 5 and
\* 6, and 6 adjacent to 4 and 5), and the four measures on it are 6, 6, 4
\* and 2.
LineF_IsSevenVertexGraph ==
    (returned /\ graphString = LineF) =>
        /\ g.nv = 7 /\ simpleGraph
        /\ edges = {{x, y} : x \in 0 .. 3, y \in 4 .. 6} \cup {{4, 6}, {5, 6}}
        /\ measured(6, 6, 4, 2)

\* The circumference of the graph of F?~vw has been measured.
LineF_Witness ==
    returned /\ graphString = LineF /\ measure = "circ_i" /\ length = 6

\* The graph has been sent to stdout.
emitted == stdout = <<graphString>>

\* The end of the loop body for the only graph of the input.
filtered == pc = "read" /\ counter = 1 /\ input = <<>>

\* The graph contains an induced cycle with `len` vertices.
hasInducedCycle(len) == \E p \in inducedCycles : Len(p) = len

\* The graph contains an induced path with `len` edges; a single vertex is
\* an induced path with no edge.
hasInducedPath(len) ==
    \E p \in simplePaths({}) : chordlessPath(p) /\ Len(p) - 1 = len

containsForbidden ==
    IF options.cycleFlag THEN hasInducedCycle(options.forbiddenLength)
    ELSE hasInducedPath(options.forbiddenLength)

\* C10: with -f # and -c (resp. -p), without -C, a valid graph is sent to
\* stdout iff it contains no induced cycle with # vertices (resp. no induced
\* path with # edges), for every #, lengths larger than the graph allows
\* included.
ForbiddenFilterAnyLength ==
    filtered => (emitted <=> ~containsForbidden)

\* What the code does: the equivalence holds for every # with -c and for
\* every # >= 1 with -p; with -p -f 0 every graph is sent to stdout, the
\* walker tallying no path without an edge.
ForbiddenFilter ==
    /\ (filtered /\ (options.cycleFlag \/ options.forbiddenLength >= 1)) =>
           (emitted <=> ~containsForbidden)
    /\ (filtered /\ options.pathFlag /\ options.forbiddenLength = 0) => emitted

\* C11: with -f # and -c or -p, without -C, every graph that contains an
\* induced cycle (resp. path) of length # is sent to stdout, as the help
\* text of -f says.
ForbiddenSendsContaining ==
    (filtered /\ containsForbidden) => emitted

\* What the code does with such a graph when # >= 1: it holds it back.
ForbiddenHoldsBackContaining ==
    (filtered /\ containsForbidden /\ options.forbiddenLength >= 1) =>
        ~emitted

(***************************************************************************)
(* main run with the filter options: every measure with and without -d,    *)
(* -C and -o #, and -c or -p with -f #, on one graph.                      *)
(***************************************************************************)
OutputValues == 0 .. (MaxOrder + 2)

FilterOptions ==
    {[options0 EXCEPT !.cycleFlag = m.cycleFlag, !.pathFlag = m.pathFlag,
                      !.lengthFlag = m.lengthFlag, !.differenceFlag = d,
                      !.complementFlag = c, !.output = o] :
        m \in MeasureOptions, d \in BOOLEAN, c \in BOOLEAN,
        o \in {-1} \cup OutputValues}
    \cup
    {[options0 EXCEPT !.cycleFlag = m, !.pathFlag = ~m,
                      !.complementFlag = c, !.forbiddenLength = f] :
        m \in BOOLEAN, c \in BOOLEAN, f \in OutputValues}

\* Every graph on up to MaxOrder vertices, and the path, the cycle and the
\* complete graph on 5 vertices.
FilterLines ==
    UNION {Lines(n) : n \in 0 .. MaxOrder} \cup {LineDhC, LineDhc, LineK5}

InitFilter ==
    \E o \in FilterOptions, line \in FilterLines :
        mainStart(o, <<line>>)

SpecFilter == InitFilter /\ [][Next]_vars

\* The measure of the decoded graph, by enumeration of its paths.
referenceMeasure ==
    CASE measure = "circ_i" -> longestCycle({})
      [] measure = "len_v" -> longestPath
      [] measure = "ic_v" -> longestInducedCycle
      [] measure = "ip_v" -> longestInducedPath

\* The value the table reports for the graph: the measure, or the order
\* minus the measure with -d.
referenceValue ==
    IF options.differenceFlag THEN g.nv - referenceMeasure
    ELSE referenceMeasure

\* The graph has an induced cycle (resp. path with an edge) of the forbidden
\* length.
hasForbidden ==
    IF options.cycleFlag THEN hasInducedCycle(options.forbiddenLength)
    ELSE options.forbiddenLength >= 1 /\ hasInducedPath(options.forbiddenLength)

\* The predicate of the filter before -C is applied.
referenceDecision ==
    IF options.forbiddenLength # -1 THEN ~hasForbidden
    ELSE referenceValue = options.output

\* C12: with -o #, without -f and -C, a valid graph is sent to stdout iff
\* its measure (its order minus its measure with -d) equals #, and that
\* same value is the entry of the frequency table incremented for it.
OutputFilter ==
    (/\ filtered /\ options.output # -1
     /\ options.forbiddenLength = -1 /\ ~options.complementFlag) =>
        /\ emitted <=> referenceValue = options.output
        /\ referenceValue \in DOMAIN zeroTable
        /\ frequencies = [zeroTable EXCEPT ![referenceValue] = 1]

\* With -d -o 1 a graph on 3 vertices with a longest path of 2 edges has
\* been sent to stdout and counted under 1.
OutputFilterWitness ==
    /\ filtered /\ options.differenceFlag /\ options.lengthFlag
    /\ options.output = 1 /\ ~options.complementFlag
    /\ g.nv = 3 /\ length = 2 /\ emitted /\ frequencies[1] = 1

\* C13: for every valid graph and every accepted option combination the
\* decision to emit with -C is the negation of the decision without -C:
\* the graph is emitted iff the predicate of the other options, which does
\* not depend on -C, differs from the -C flag.
ComplementNegates ==
    filtered => (emitted <=> (referenceDecision # options.complementFlag))

\* With -C -d -o 1 a graph whose value is not 1 has been sent to stdout.
ComplementWitness ==
    /\ filtered /\ options.complementFlag /\ options.differenceFlag
    /\ options.output = 1 /\ referenceValue # 1 /\ emitted

(***************************************************************************)
(* main from its first statement: the getopt loop over the command line,   *)
(* the usage checks, then the read loop.                                   *)
(***************************************************************************)
\* What getopt_long returns for one option of the command line: the option
\* letter ("?" for an unknown option) and the number strtol makes of its
\* argument.
ArgTokens ==
    {[opt |-> x, arg |-> 0] : x \in {"c", "C", "d", "h", "l", "p", "?"}}
    \cup {[opt |-> "f", arg |-> 3], [opt |-> "o", arg |-> 3]}

ArgVectors == UNION {[1 .. k -> ArgTokens] : k \in 0 .. MaxArgs}

\* The while (1) loop around getopt_long: [options, ret], ret = -1 when the
\* loop ends with a break, else the value main returns from inside it.
RECURSIVE getoptLoop(_, _)
getoptLoop(args, o) ==
    IF args = <<>> THEN [options |-> o, ret |-> -1]
    ELSE LET opt == Head(args).opt
             optarg == Head(args).arg
         IN  CASE opt = "c" ->
                    getoptLoop(Tail(args), [o EXCEPT !.cycleFlag = TRUE])
               [] opt = "C" ->
                    getoptLoop(Tail(args), [o EXCEPT !.complementFlag = TRUE])
               [] opt = "d" ->
                    getoptLoop(Tail(args), [o EXCEPT !.differenceFlag = TRUE])
               [] opt = "f" ->
                    getoptLoop(Tail(args), [o EXCEPT !.forbiddenLength = optarg])
               [] opt = "h" -> [options |-> o, ret |-> 0]
               [] opt = "l" ->
                    getoptLoop(Tail(args), [o EXCEPT !.lengthFlag = TRUE])
               [] opt = "o" ->
                    getoptLoop(Tail(args), [o EXCEPT !.output = optarg])
               [] opt = "p" ->
                    getoptLoop(Tail(args), [o EXCEPT !.pathFlag = TRUE])
               [] opt = "?" -> [options |-> o, ret |-> 1]

\* main up to its read loop.  pc becomes "help" when main returns 0 for -h,
\* "usage" when it returns 1, "read" when it enters the loop.
ParseOptions ==
    /\ pc = "start"
    /\ \E args \in ArgVectors :
           LET parsed == getoptLoop(args, options0)
           IN  /\ options' = parsed.options
               /\ pc' = IF parsed.ret = 0 THEN "help"
                        ELSE IF parsed.ret = 1 THEN "usage"
                        ELSE IF ~optionsAccepted(parsed.options) THEN "usage"
                        ELSE "read"
    /\ UNCHANGED <<input, graphString, g, numberOfLengths, length,
                   frequencies, counter, skippedGraphs, passedGraphs, stdout,
                   excludedVertices, drv, stack>>

\* An empty line.
LineBlank == <<NEWLINE>>

\* What stdin holds: nothing, the cycle on 5 vertices, an empty line.
UsageInputs == {<<>>, <<LineDhc>>, <<LineBlank>>}

InitUsage ==
    \E lines \in UsageInputs :
        /\ options = options0
        /\ input = lines
        /\ graphString = <<>>
        /\ g = noGraph
        /\ numberOfLengths = zeroTable
        /\ length = 0
        /\ frequencies = zeroTable
        /\ counter = 0
        /\ skippedGraphs = 0
        /\ passedGraphs = 0
        /\ stdout = <<>>
        /\ excludedVertices = EMPTY
        /\ drv = drv0
        /\ stack = <<>>
        /\ pc = "start"

NextUsage ==
    \/ ParseOptions
    \/ Next

SpecUsage == InitUsage /\ [][NextUsage]_vars

\* The program has ended with exit code 1: main returned 1, or shouldOutput
\* called exit(1).
exitedWithOne == pc \in {"usage", "exit"}

\* No line of stdin has been read and no graph measured or emitted.
nothingRead ==
    /\ graphString = <<>> /\ g = noGraph
    /\ counter = 0 /\ skippedGraphs = 0 /\ passedGraphs = 0
    /\ stdout = <<>> /\ frequencies = zeroTable

\* C14: whenever the program rejects a flag combination as a usage error
\* and exits with code 1, no line of stdin has been read and no graph has
\* been measured or emitted.
UsageErrorBeforeInput == exitedWithOne => nothingRead

\* What the code does: the usage errors main detects come before any input;
\* -d with -f is detected by shouldOutput, after the first valid graph has
\* been read and measured.
UsageErrorOfMainBeforeInput ==
    /\ pc = "usage" => nothingRead
    /\ pc = "exit" =>
          /\ options.differenceFlag /\ options.forbiddenLength # -1
          /\ counter = 1 /\ stdout = <<>>

(***************************************************************************)
(* main run on several lines, valid and invalid ones.                      *)
(***************************************************************************)
\* Bw: the triangle.  Bg: the path on 3 vertices.
LineK3 == <<66, 119, NEWLINE>>

LineP3 == <<66, 103, NEWLINE>>

\* >>graph6<<Bw: the triangle with the optional header.
LineHeaderK3 == <<62, 62, 103, 114, 97, 112, 104, 54, 60, 60>> \o LineK3

\* Bw without its newline: the last line of a file that lacks one.
LineNoNewline == <<66, 119>>

\* D?: 5 vertices declared, one body byte where two are needed.
LineTruncated == <<68, 63, NEWLINE>>

\* A complete line of the graph on BITSETSIZE vertices without an edge:
\* the 18-bit form of 64, then 64 * 63 / 2 = 2016 zero bits in 336 bytes.
LineWidth == <<126, 63, 64, 63>> \o [k \in 1 .. 336 |-> 63] \o <<NEWLINE>>

\* A line that starts with > and has a NUL byte in its ten header bytes.
LineNulHeader == <<62, NUL, 103, 114, 97, 112, 104, 54, 60, 60>> \o LineK3

StreamLines ==
    {LineK3, LineP3, LineDhc, LineHeaderK3, LineBlank, LineNoNewline,
     LineTruncated, LineWidth, LineNulHeader}

\* What getline can deliver: every line but the last ends with a newline.
Streams ==
    UNION {{s \in [1 .. k -> StreamLines] :
               \A i \in 1 .. (k - 1) : s[i][Len(s[i])] = NEWLINE} :
           k \in 0 .. MaxLines}

\* -o 3, -l -o 2, -c -f 3, -p -f 2 and -C alone.
StreamOptions ==
    {[options0 EXCEPT !.output = 3],
     [options0 EXCEPT !.lengthFlag = TRUE, !.output = 2],
     [options0 EXCEPT !.cycleFlag = TRUE, !.forbiddenLength = 3],
     [options0 EXCEPT !.pathFlag = TRUE, !.forbiddenLength = 2],
     [options0 EXCEPT !.complementFlag = TRUE]}

InitStream ==
    \E o \in StreamOptions, lines \in Streams :
        mainStart(o, lines)

SpecStream == InitStream /\ [][Next]_vars

\* The parts of a line: the optional ten header bytes, the bytes that hold
\* the vertex count, the body, the newline.
headerLength(line) == IF line[1] = 62 THEN 10 ELSE 0

sizeBytes(n) == IF n <= 62 THEN 1 ELSE 4

fullLength(line) ==
    headerLength(line) + sizeBytes(getNumberOfVertices(line))
    + bodyLength(getNumberOfVertices(line)) + 1

\* A line with a vertex count, printable body bytes and a final newline.
graphLine(line) ==
    /\ Len(line) >= 1 /\ line[Len(line)] = NEWLINE
    /\ getNumberOfVertices(line) >= 0
    /\ Len(line) >= headerLength(line) + sizeBytes(getNumberOfVertices(line)) + 1
    /\ \A k \in (headerLength(line) + sizeBytes(getNumberOfVertices(line)) + 1)
                 .. (Len(line) - 1) : line[k] \in 63 .. 126

\* The body has all the bytes its vertex count asks for / fewer.
completeLine(line) == graphLine(line) /\ Len(line) = fullLength(line)

truncatedLine(line) == graphLine(line) /\ Len(line) < fullLength(line)

\* The step of main that reads the next line skips it as invalid.
skips == pc = "read" /\ skippedGraphs' = skippedGraphs + 1

\* C15: a step that skips a line as invalid leaves the count of checked
\* graphs, the frequency table, the count of passed graphs and stdout
\* unchanged, and the loop goes on with the lines that follow.
SkipChangesNothing ==
    [][skips =>
         /\ counter' = counter /\ frequencies' = frequencies
         /\ passedGraphs' = passedGraphs /\ stdout' = stdout
         /\ pc' = "read" /\ input' = Tail(input)]_vars

\* What the code does: the counts and the table are left alone and the loop
\* goes on, but getNumberOfVertices prints its error message on stdout.
SkipPrintsOnStdout ==
    [][skips =>
         /\ counter' = counter /\ frequencies' = frequencies
         /\ passedGraphs' = passedGraphs
         /\ stdout' = stdout \o getNumberOfVerticesPrints(Head(input))
         /\ pc' = "read" /\ input' = Tail(input)]_vars

\* C16: a complete line is skipped on account of its size exactly when its
\* vertex count is greater than BITSETSIZE; with a vertex count up to
\* BITSETSIZE, BITSETSIZE included, it is decoded and its measure called.
SizeSkipAboveWidth ==
    [][(pc = "read" /\ input # <<>> /\ completeLine(Head(input))) =>
         IF getNumberOfVertices(Head(input)) > BITSETSIZE
         THEN skippedGraphs' = skippedGraphs + 1 /\ counter' = counter
         ELSE /\ skippedGraphs' = skippedGraphs /\ counter' = counter + 1
              /\ g'.nv = getNumberOfVertices(Head(input))
              /\ pc' = measureEntry(options)]_vars

\* What the code does: the line is skipped from BITSETSIZE vertices on.
SizeSkipFromWidth ==
    [][(pc = "read" /\ input # <<>> /\ completeLine(Head(input))) =>
         IF getNumberOfVertices(Head(input)) > BITSETSIZE - 1
         THEN skippedGraphs' = skippedGraphs + 1 /\ counter' = counter
         ELSE /\ skippedGraphs' = skippedGraphs /\ counter' = counter + 1
              /\ g'.nv = getNumberOfVertices(Head(input))
              /\ pc' = measureEntry(options)]_vars

\* C17: a line whose body has fewer bytes than its vertex count asks for is
\* skipped: not counted, and nothing of it reaches stdout.
TruncatedLineSkipped ==
    [][(pc = "read" /\ input # <<>> /\ truncatedLine(Head(input))) =>
         /\ skippedGraphs' = skippedGraphs + 1 /\ counter' = counter
         /\ pc' = "read"]_vars

\* What the code does with such a line of fewer than BITSETSIZE vertices:
\* it is counted and measured as the graph with the edges of the bytes that
\* are there.
TruncatedLineMeasured ==
    [][(/\ pc = "read" /\ input # <<>> /\ truncatedLine(Head(input))
        /\ getNumberOfVertices(Head(input)) < BITSETSIZE) =>
         /\ skippedGraphs' = skippedGraphs /\ counter' = counter + 1
         /\ pc' = measureEntry(options)]_vars

\* C18: every write to stdout is, byte for byte, the input line read last,
\* made when the filter accepts that line's graph; as every line is read
\* once and written in its own turn, the lines on stdout are in input
\* order and none is written twice.
StdoutIsAcceptedLines ==
    [][stdout' # stdout =>
         /\ pc = "output"
         /\ shouldOutput(length, numberOfLengths, optionsNumber(options),
                         options)
         /\ stdout' = Append(stdout, graphString)]_vars

\* What the code does: getNumberOfVertices prints its error messages on
\* stdout, and the printf of an accepted line stops at the first NUL byte.
StdoutWrites ==
    [][stdout' # stdout =>
         \/ /\ pc = "read"
            /\ stdout' = stdout \o getNumberOfVerticesPrints(Head(input))
         \/ /\ pc = "output"
            /\ shouldOutput(length, numberOfLengths, optionsNumber(options),
                            options)
            /\ stdout' = Append(stdout, printed(graphString))]_vars

bodyBit(line, k) ==
    bitSet(line[headerLength(line) + sizeBytes(getNumberOfVertices(line))
                + (k \div 6) + 1] - 63,
           5 - (k % 6))

\* The edge of bit index k: j is the smallest integer with
\* k < j(j-1)/2 + j, and i = k - j(j-1)/2.
columnOfBit(k) ==
    Min({j \in 0 .. (k + 1) : k < (j * (j - 1)) \div 2 + j})

rowOfBit(k) == k - (columnOfBit(k) * (columnOfBit(k) - 1)) \div 2

\* The line read last has been decoded into g.
decoded == counter = 1 /\ pc # "read"

\* C19: loadGraph maps bit index k of the body to the edge (i, j) with j
\* the smallest integer such that k < j(j-1)/2 + j and i = k - j(j-1)/2,
\* for every k below n(n-1)/2: the decoded graph is simple and its edges
\* are exactly the edges of the bits that are set.
BitIndexIsEdge ==
    decoded =>
        /\ simpleGraph
        /\ edges = {{rowOfBit(k), columnOfBit(k)} :
                       k \in {b \in 0 .. ((g.nv * (g.nv - 1)) \div 2 - 1) :
                                 bodyBit(graphString, b)}}

\* The line Dhc has been decoded: its bit 9 is set and 3 and 4 are adjacent,
\* its bit 8 is not and 2 and 4 are not.
BitIndexWitness ==
    /\ decoded /\ graphString = LineDhc
    /\ bodyBit(LineDhc, 9) /\ rowOfBit(9) = 3 /\ columnOfBit(9) = 4
    /\ 4 \in adj(3) /\ ~bodyBit(LineDhc, 8) /\ 4 \notin adj(2)

\* The degree of x within the subgraph induced by the included vertices.
includedDegree(x) == size(adj(x) \cap drv.includedVertices)

\* getCircumference holds a pivot chosen by findLowestDegreeVertex.
pivotChosen == pc \in {"circ_w", "circ_u", "circ_walk"}

\* C23: in every iteration of getCircumference's inner loop the pivot is an
\* included vertex that minimises the degree within the included vertices,
\* and among the minimisers the one of smallest index.
PivotIsLowestDegree ==
    pivotChosen =>
        /\ drv.v \in drv.includedVertices
        /\ \A x \in drv.includedVertices :
              /\ includedDegree(drv.v) <= includedDegree(x)
              /\ includedDegree(x) = includedDegree(drv.v) => drv.v <= x

\* What the code guarantees: the pivot is an included vertex, and it is the
\* lowest-degree one of smallest index as long as no vertex is forbidden.
PivotIsIncluded ==
    pivotChosen =>
        /\ drv.v \in drv.includedVertices
        /\ drv.forbiddenVertices = EMPTY =>
              \A x \in drv.includedVertices :
                 /\ includedDegree(drv.v) <= includedDegree(x)
                 /\ includedDegree(x) = includedDegree(drv.v) => drv.v <= x

\* The induced cycles of the graph with len vertices, each as its set of
\* vertices (an induced cycle is determined by its vertices).
inducedCyclesOfLength(len) == {range(p) : p \in {q \in inducedCycles : Len(q) = len}}

\* The seeds w v u of getLongestInducedCycleLength that lie on an induced
\* cycle with len vertices: v is below w and w below u.
seededCyclesOfLength(len) ==
    {p \in inducedCycles : Len(p) = len /\ p[2] < p[1] /\ p[1] < p[3]}

\* getLongestInducedCycleLength has returned to main.
inducedCycleMeasured == options.cycleFlag /\ returned

\* C24: getLongestInducedCycleLength seeds the walker for every vertex v
\* and every pair of neighbours w, u of v with u > w, so each induced cycle
\* with L vertices is recorded once per vertex on it: the table holds L
\* times the number of induced cycles with L vertices.
InducedCycleCountedPerVertex ==
    inducedCycleMeasured =>
        \A len \in 3 .. g.nv :
            numberOfLengths[len] = len * Cardinality(inducedCyclesOfLength(len))

\* What the code does: a cycle is recorded once for every vertex on it
\* that is smaller than both its neighbours on the cycle, at least once.
InducedCycleCountedPerSeed ==
    inducedCycleMeasured =>
        \A len \in 0 .. (BITSETSIZE - 1) :
            /\ numberOfLengths[len] =
                  IF len \in 3 .. g.nv
                  THEN Cardinality(seededCyclesOfLength(len)) ELSE 0
            /\ len \in 3 .. g.nv =>
                  numberOfLengths[len] >= Cardinality(inducedCyclesOfLength(len))

(***************************************************************************)
(* The walkers' frames: what each call received and what it holds.         *)
(***************************************************************************)
\* A walker is running.
walking == pc \in {"circ_walk", "len_walk", "ic_walk", "ip_walk"}

\* The call a driver makes on its seed path.
seedFrame ==
    IF pc = "circ_walk" THEN circumferenceSeed
    ELSE IF pc = "ic_walk" THEN inducedCycleSeed
    ELSE frame(drv.remainingVertices, drv.w, drv.v, 2)

\* The parameters the call of frame k was made with.
received(k) == IF k = 1 THEN seedFrame ELSE calleeOf(stack[k - 1])

\* The vertices on the path of the running walker, first to last: the
\* cycle walkers start from the seed w v u, the path walkers from v w.
visited ==
    IF pc \in {"circ_walk", "ic_walk"}
    THEN walked(<<top.firstElemOfPath, drv.v>>)
    ELSE walked(<<top.firstElemOfPath>>)

\* Frame k is in its loop after at least one call has returned to it.
backtracked(k) ==
    /\ stack[k].at = "loop"
    /\ stack[k].neighbour # next(stack[k].neighboursOfLastNotInPath, -1)

\* C25: in each of the four walkers, when a recursive call has returned
\* and the backtrack step has run, the walker's remaining set and last
\* vertex are exactly what they were before the descent, which is what the
\* call received.
BacktrackRestores ==
    walking =>
        \A k \in 1 .. Len(stack) :
            backtracked(k) =>
                /\ stack[k].remainingVertices = received(k).remainingVertices
                /\ stack[k].lastElemOfPath = received(k).lastElemOfPath

\* What the code guarantees: the last vertex is restored, canBeCycleOfLength
\* restores its remaining set, searchLongestSuperPath may gain its own last
\* vertex and the induced walkers may gain neighbours of their last vertex.
BacktrackRestoresLast ==
    walking =>
        \A k \in 1 .. Len(stack) :
            backtracked(k) =>
                /\ stack[k].lastElemOfPath = received(k).lastElemOfPath
                /\ received(k).remainingVertices \subseteq stack[k].remainingVertices
                /\ pc = "circ_walk" =>
                      stack[k].remainingVertices = received(k).remainingVertices
                /\ pc = "len_walk" =>
                      stack[k].remainingVertices =
                          received(k).remainingVertices
                              \cup {stack[k].lastElemOfPath}
                /\ pc \in {"ic_walk", "ip_walk"} =>
                      stack[k].remainingVertices =
                          received(k).remainingVertices
                              \cup adj(stack[k].lastElemOfPath)

\* C26: on every recursive descent of every walker the remaining set
\* passed to the callee is a strict subset of the remaining set the caller
\* itself received.
DescentShrinksRemaining ==
    walking =>
        \A k \in 2 .. Len(stack) :
            /\ received(k).remainingVertices
                  \subseteq received(k - 1).remainingVertices
            /\ received(k).remainingVertices
                  # received(k - 1).remainingVertices

\* What the code guarantees: the set passed on is a subset of the set
\* received, and a strict one in every walker but searchLongestSuperPath
\* called on the seed of getLength.
DescentKeepsWithinRemaining ==
    walking =>
        \A k \in 2 .. Len(stack) :
            /\ received(k).remainingVertices
                  \subseteq received(k - 1).remainingVertices
            /\ (pc # "len_walk" \/ k > 2) =>
                  received(k).remainingVertices
                      # received(k - 1).remainingVertices

\* C27: at every entry of every walker the vertices visited so far form a
\* simple walk of the graph from first to last, and remaining contains
\* none of them, in particular not last.
EntryKeepsPathOutOfRemaining ==
    (walking /\ top.at = "entry") =>
        /\ isSimplePath(visited)
        /\ visited[1] = top.firstElemOfPath
        /\ visited[Len(visited)] = top.lastElemOfPath
        /\ top.remainingVertices \cap range(visited) = EMPTY
        /\ top.lastElemOfPath \notin top.remainingVertices

\* What the code guarantees: the visited vertices form a simple path from
\* first to last, and of them only last can be in remaining, and only in
\* searchLongestSuperPath.
EntryKeepsPathSimple ==
    (walking /\ top.at = "entry") =>
        /\ isSimplePath(visited)
        /\ visited[1] = top.firstElemOfPath
        /\ visited[Len(visited)] = top.lastElemOfPath
        /\ top.remainingVertices \cap range(visited) \subseteq {top.lastElemOfPath}
        /\ pc # "len_walk" => top.lastElemOfPath \notin top.remainingVertices

\* The induced paths of the graph with len edges, each taken once (from
\* its smaller end).
inducedPathsOfLength(len) ==
    {p \in inducedPaths : Len(p) = len + 1 /\ p[1] < p[Len(p)]}

\* getLongestInducedPathLength has returned to main.
inducedPathMeasured == options.pathFlag /\ returned

\* C28: after getLongestInducedPathLength has run on an all-zero table,
\* the entry for every L >= 1 is twice the number of induced paths with L
\* edges, the entry for 0 is still 0, and so an entry is non-zero exactly
\* when an induced path with that many edges exists.
InducedPathsCountedTwice ==
    inducedPathMeasured =>
        /\ numberOfLengths[0] = 0
        /\ \A len \in 1 .. (BITSETSIZE - 1) :
              /\ numberOfLengths[len] =
                    2 * Cardinality(inducedPathsOfLength(len))
              /\ numberOfLengths[len] # 0 <=> hasInducedPath(len)

\* The path on five vertices has been measured: one induced path with four
\* edges, two with three, three with two and four with one.
InducedPathsCountedWitness ==
    /\ inducedPathMeasured /\ graphString = LineDhC
    /\ numberOfLengths[4] = 2 /\ numberOfLengths[3] = 4
    /\ numberOfLengths[2] = 6 /\ numberOfLengths[1] = 8

(***************************************************************************)
(* main run on several lines with and without -d: the counters and the     *)
(* frequency table.                                                        *)
(***************************************************************************)
\* The options of SpecStream, each measure with -d, and -c -d -f 3.
TallyOptions ==
    StreamOptions
    \cup {[m EXCEPT !.differenceFlag = TRUE] : m \in MeasureOptions}
    \cup {[options0 EXCEPT !.cycleFlag = TRUE, !.differenceFlag = TRUE,
                           !.forbiddenLength = 3]}

InitTally ==
    \E o \in TallyOptions, lines \in Streams :
        mainStart(o, lines)

SpecTally == InitTally /\ [][Next]_vars

\* The sum of the entries of a table from index x on.
RECURSIVE sumFrom(_, _)
sumFrom(table, x) ==
    IF x \notin DOMAIN table THEN 0 ELSE table[x] + sumFrom(table, x + 1)

\* main is between two lines, or past the last one.
betweenLines == pc \in {"read", "done"}

\* Every line taken from stdin is counted as checked or as skipped.
lineCounted ==
    (counter' + skippedGraphs') - (counter + skippedGraphs)
        = Len(input) - Len(input')

\* C29: after any sequence of input lines has been processed the entries
\* of the frequency table sum to the number of checked graphs, checked plus
\* skipped is the number of lines read, the number of graphs sent to stdout
\* is at most the number checked, and every table index that is
\* incremented lies in 0 .. BITSETSIZE - 1.
TalliesAgree ==
    /\ [](betweenLines =>
             /\ sumFrom(frequencies, 0) = counter
             /\ passedGraphs <= counter)
    /\ [](pc = "output" =>
             tableIndex(options, length) \in 0 .. (BITSETSIZE - 1))
    /\ [][pc' \in {"read", "done", "output"} \cup {measureEntry(options)}
             => lineCounted]_vars

\* Two lines have been read with -d: one skipped, one checked and tallied
\* at the difference 0.
TalliesWitness ==
    /\ pc = "done" /\ options.differenceFlag
    /\ counter = 1 /\ skippedGraphs = 1 /\ frequencies[0] = 1
    /\ sumFrom(frequencies, 0) = 1

(***************************************************************************)
(* loadGraph on lines whose body is any sequence of printable bytes: too   *)
(* short, complete, too long, with and without bits set in the padding.    *)
(***************************************************************************)
\* Body bytes: no bit, bits 1 and 2, bits 0 to 2, all six bits.
BodyBytes == {63, 87, 119, 126}

\* B~: 3 vertices and a body byte with its three padding bits set.
LinePadding == <<66, 126, NEWLINE>>

DecodeLines ==
    {<<63 + n>> \o b \o <<NEWLINE>> :
        n \in 0 .. MaxOrder,
        b \in UNION {[1 .. k -> BodyBytes] : k \in 0 .. 2}}
    \cup {LinePadding, LineDhC, LineDhc, LineK5}

InitDecode ==
    \E o \in MeasureOptions, line \in DecodeLines :
        mainStart(o, <<line>>)

SpecDecode == InitDecode /\ [][Next]_vars

\* What loadGraph does with the line read last.
lastLoad == loadGraph(graphString, getNumberOfVertices(graphString))

\* loadGraph has been called on the line read last and has returned 0.
loadGraphAccepts ==
    /\ graphString # <<>>
    /\ getNumberOfVertices(graphString) \in 0 .. (BITSETSIZE - 1)
    /\ lastLoad.ret = 0

\* No vertex is in its own set, the sets are symmetric and hold vertices
\* below n only.
wellFormed(adjacency, n) ==
    \A x \in 0 .. (n - 1) :
        /\ x \notin adjacency[x]
        /\ \A y \in adjacency[x] : y \in 0 .. (n - 1) /\ x \in adjacency[y]

\* C30: for every line that loadGraph accepts with n vertices the
\* adjacency sets it has filled are those of the n vertices: no vertex is
\* in its own set, u is in adj[v] iff v is in adj[u], and every element of
\* every set is in 0 .. n - 1.
LoadGraphWellFormed ==
    loadGraphAccepts =>
        /\ ~lastLoad.oob
        /\ wellFormed(lastLoad.adj, getNumberOfVertices(graphString))

\* What the code guarantees: the sets are well formed when no set bit of
\* the body lies at or beyond n(n-1)/2, and the graph main goes on with is
\* one of those.
LoadGraphWellFormedWithinBody ==
    /\ (loadGraphAccepts /\ ~lastLoad.oob) =>
          wellFormed(lastLoad.adj, getNumberOfVertices(graphString))
    /\ decoded => simpleGraph

(***************************************************************************)
(* hamiltonicityMethods.c: canBeHamiltonian, canBeHamiltonianPrintCycle,   *)
(* isHamiltonian, hasMinimumDegree and isK2Hamiltonian, on the decoded     *)
(* graph g.  What they print goes to stderr and is left out.               *)
(***************************************************************************)
\* A variant of cannotBeExtended that asks for two unvisited neighbours.
cannotBeExtended_withoutEnds(remainingVertices, lastElemOfPath, firstElemOfPath) ==
    \E vertex \in remainingVertices :
        size(adj(vertex) \cap remainingVertices) < 2

\* The forEach loop of canBeHamiltonian over the vertices not yet visited:
\* one of them has fewer than two neighbours it can still connect to.
cannotBeExtended(remainingVertices, lastElemOfPath, firstElemOfPath) ==
    \E vertex \in remainingVertices :
        size(adj(vertex) \cap (remainingVertices
                                 \cup {firstElemOfPath, lastElemOfPath})) < 2

\* canBeHamiltonian; its forEach loop over the neighbours of the last
\* element is canBeHamiltonian_loop, which returns true at the first
\* extension that can become a hamiltonian cycle.
RECURSIVE canBeHamiltonian(_, _, _, _, _)
RECURSIVE canBeHamiltonian_loop(_, _, _, _, _, _)
canBeHamiltonian(remainingVertices, lastElemOfPath, firstElemOfPath, numberOfVertices, pathLength) ==
    IF pathLength = numberOfVertices /\ lastElemOfPath \in adj(firstElemOfPath)
    THEN TRUE
    ELSE IF adj(firstElemOfPath) \cap remainingVertices = EMPTY
    THEN FALSE
    ELSE IF cannotBeExtended(remainingVertices, lastElemOfPath, firstElemOfPath)
    THEN FALSE
    ELSE canBeHamiltonian_loop(
             remainingVertices, lastElemOfPath, firstElemOfPath,
             numberOfVertices, pathLength,
             next(adj(lastElemOfPath) \cap remainingVertices, -1))

canBeHamiltonian_loop(remainingVertices, lastElemOfPath, firstElemOfPath, numberOfVertices, pathLength, neighbour) ==
    IF neighbour = -1 THEN FALSE
    ELSE IF canBeHamiltonian(remainingVertices \ {neighbour}, neighbour,
                             firstElemOfPath, numberOfVertices, pathLength + 1)
    THEN TRUE
    ELSE canBeHamiltonian_loop(
             remainingVertices, lastElemOfPath, firstElemOfPath,
             numberOfVertices, pathLength,
             next(adj(lastElemOfPath) \cap remainingVertices, neighbour))

\* canBeHamiltonianPrintCycle: [ret, count], count being the value of
\* *numberOfHamiltonianCycles after the call.
RECURSIVE canBeHamiltonianPrintCycle(_, _, _, _, _, _, _)
RECURSIVE canBeHamiltonianPrintCycle_loop(_, _, _, _, _, _, _, _)
canBeHamiltonianPrintCycle(remainingVertices, lastElemOfPath, firstElemOfPath, numberOfVertices, pathLength, numberOfHamiltonianCycles, allCyclesFlag) ==
    IF pathLength = numberOfVertices /\ lastElemOfPath \in adj(firstElemOfPath)
    THEN [ret |-> TRUE, count |-> numberOfHamiltonianCycles + 1]
    ELSE IF adj(firstElemOfPath) \cap remainingVertices = EMPTY
    THEN [ret |-> FALSE, count |-> numberOfHamiltonianCycles]
    ELSE IF cannotBeExtended(remainingVertices, lastElemOfPath, firstElemOfPath)
    THEN [ret |-> FALSE, count |-> numberOfHamiltonianCycles]
    ELSE canBeHamiltonianPrintCycle_loop(
             remainingVertices, lastElemOfPath, firstElemOfPath,
             numberOfVertices, pathLength, numberOfHamiltonianCycles,
             allCyclesFlag,
             next(adj(lastElemOfPath) \cap remainingVertices, -1))

canBeHamiltonianPrintCycle_loop(remainingVertices, lastElemOfPath, firstElemOfPath, numberOfVertices, pathLength, numberOfHamiltonianCycles, allCyclesFlag, neighbour) ==
    IF neighbour = -1
    THEN [ret |-> numberOfHamiltonianCycles # 0,
          count |-> numberOfHamiltonianCycles]
    ELSE LET r == canBeHamiltonianPrintCycle(
                      remainingVertices \ {neighbour}, neighbour,
                      firstElemOfPath, numberOfVertices, pathLength + 1,
                      numberOfHamiltonianCycles, allCyclesFlag)
         IN  IF r.ret /\ ~allCyclesFlag
             THEN [ret |-> TRUE, count |-> r.count]
             ELSE canBeHamiltonianPrintCycle_loop(
                      remainingVertices, lastElemOfPath, firstElemOfPath,
                      numberOfVertices, pathLength, r.count, allCyclesFlag,
                      next(adj(lastElemOfPath) \cap remainingVertices,
                           neighbour))

\* The included vertex isHamiltonian starts from: the loop is the one of
\* findLowestDegreeVertex, the first vertex counted with its full degree.
startingVertexOf(includedVertices) == findLowestDegreeVertex(includedVertices)

\* The seed path lastElemOfPath, startingVertex, secondElemOfPath.
hamiltonianSeed(includedVertices, startingVertex, secondElemOfPath, lastElemOfPath) ==
    includedVertices \ {startingVertex, lastElemOfPath, secondElemOfPath}

\* The two nested loops of isHamiltonian from the pair (second, last) on:
\* returns the value isHamiltonian returns.
RECURSIVE isHamiltonian_loop(_, _, _, _, _, _, _)
isHamiltonian_loop(includedVertices, startingVertex, secondElemOfPath, lastElemOfPath, numberOfHamiltonianCycles, allCyclesFlag, verboseFlag) ==
    LET seeds == adj(startingVertex) \cap includedVertices
    IN  IF secondElemOfPath = -1
        THEN numberOfHamiltonianCycles # 0
        ELSE IF lastElemOfPath = -1
        THEN isHamiltonian_loop(
                 includedVertices, startingVertex,
                 next(seeds, secondElemOfPath),
                 next(seeds, next(seeds, secondElemOfPath)),
                 numberOfHamiltonianCycles, allCyclesFlag, verboseFlag)
        ELSE LET remainingVertices ==
                     hamiltonianSeed(includedVertices, startingVertex,
                                     secondElemOfPath, lastElemOfPath)
             IN  IF ~allCyclesFlag /\ ~verboseFlag
                 THEN IF canBeHamiltonian(remainingVertices, lastElemOfPath,
                                          secondElemOfPath,
                                          size(includedVertices), 3)
                      THEN TRUE
                      ELSE isHamiltonian_loop(
                               includedVertices, startingVertex,
                               secondElemOfPath, next(seeds, lastElemOfPath),
                               numberOfHamiltonianCycles, allCyclesFlag,
                               verboseFlag)
                 ELSE LET r == canBeHamiltonianPrintCycle(
                                   remainingVertices, secondElemOfPath,
                                   lastElemOfPath, size(includedVertices), 3,
                                   numberOfHamiltonianCycles, allCyclesFlag)
                      IN  IF ~allCyclesFlag /\ r.count # 0
                          THEN TRUE
                          ELSE isHamiltonian_loop(
                                   includedVertices, startingVertex,
                                   secondElemOfPath,
                                   next(seeds, lastElemOfPath),
                                   r.count, allCyclesFlag, verboseFlag)

isHamiltonian(excluded, allCyclesFlag, verboseFlag) ==
    LET includedVertices == complement(excluded, g.nv)
    IN  IF includedVertices = EMPTY THEN FALSE
        ELSE LET startingVertex == startingVertexOf(includedVertices)
                 seeds == adj(startingVertex) \cap includedVertices
             IN  isHamiltonian_loop(includedVertices, startingVertex,
                                    next(seeds, -1),
                                    next(seeds, next(seeds, -1)),
                                    0, allCyclesFlag, verboseFlag)

hasMinimumDegree(degree) ==
    \A i \in 0 .. (g.nv - 1) : ~(size(adj(i)) < degree)

\* The pairs (i, neighbour), i below neighbour, that isK2Hamiltonian's
\* loops take out of the graph.
adjacentPairs ==
    {<<i, neighbour>> \in (0 .. (g.nv - 1)) \X (0 .. (g.nv - 1)) :
        neighbour \in adj(i) /\ i < neighbour}

\* With -v the pair to check is looked at with verbose set and with
\* allCyclesFlag, every other pair without flags.
isCheckedPair(pair, vertexPairToCheck) ==
    \/ pair[1] = vertexPairToCheck[1] /\ pair[2] = vertexPairToCheck[2]
    \/ pair[1] = vertexPairToCheck[2] /\ pair[2] = vertexPairToCheck[1]

isK2Hamiltonian(verboseFlag, allCyclesFlag, vertexPairToCheck) ==
    IF ~hasMinimumDegree(3) THEN FALSE
    ELSE IF ~verboseFlag
    THEN \A pair \in adjacentPairs :
             isHamiltonian({pair[1], pair[2]}, FALSE, FALSE)
    ELSE \A pair \in adjacentPairs :
             IF isCheckedPair(pair, vertexPairToCheck)
             THEN isHamiltonian({pair[1], pair[2]}, allCyclesFlag, TRUE)
             ELSE isHamiltonian({pair[1], pair[2]}, FALSE, FALSE)

\* The pairs given with -v#,#: an edge of most graphs, and a pair given in
\* the other order.
PairsToCheck == {<<0, 1>>, <<3, 2>>}

\* The state at a call of isHamiltonian or isK2Hamiltonian on the graph of
\* a line: the flags and the pair are held in options, the excluded
\* vertices in excludedVertices.
hamiltonicityStart(line, excluded, flags, position) ==
    /\ options = flags
    /\ input = <<>>
    /\ graphString = line
    /\ g = [nv |-> getNumberOfVertices(line),
            adjacencyList |-> loadGraph(line, getNumberOfVertices(line)).adj]
    /\ numberOfLengths = zeroTable
    /\ length = 0
    /\ frequencies = zeroTable
    /\ counter = 0
    /\ skippedGraphs = 0
    /\ passedGraphs = 0
    /\ stdout = <<>>
    /\ excludedVertices = excluded
    /\ drv = drv0
    /\ stack = <<>>
    /\ pc = position

InitHamiltonicity ==
    \E line \in InputLines, allCyclesFlag \in BOOLEAN, verboseFlag \in BOOLEAN :
        \/ \E excluded \in SUBSET (0 .. (getNumberOfVertices(line) - 1)) :
              hamiltonicityStart(
                  line, excluded,
                  [allCyclesFlag |-> allCyclesFlag, verboseFlag |-> verboseFlag,
                   vertexPairToCheck |-> <<-1, -1>>],
                  "isHamiltonian")
        \/ \E vertexPairToCheck \in PairsToCheck :
              hamiltonicityStart(
                  line, EMPTY,
                  [allCyclesFlag |-> allCyclesFlag, verboseFlag |-> verboseFlag,
                   vertexPairToCheck |-> vertexPairToCheck],
                  "isK2Hamiltonian")

\* The value of a C bool.
boolValue(b) == IF b THEN 1 ELSE 0

\* A call of isHamiltonian: its value is left in length.
isHamiltonian_call ==
    /\ pc = "isHamiltonian"
    /\ length' = boolValue(isHamiltonian(excludedVertices,
                                         options.allCyclesFlag,
                                         options.verboseFlag))
    /\ pc' = "isHamiltonian_returned"
    /\ UNCHANGED <<options, input, graphString, g, numberOfLengths,
                   frequencies, counter, skippedGraphs, passedGraphs, stdout,
                   excludedVertices, drv, stack>>

\* A call of isK2Hamiltonian: its value is left in length.
isK2Hamiltonian_call ==
    /\ pc = "isK2Hamiltonian"
    /\ length' = boolValue(isK2Hamiltonian(options.verboseFlag,
                                           options.allCyclesFlag,
                                           options.vertexPairToCheck))
    /\ pc' = "isK2Hamiltonian_returned"
    /\ UNCHANGED <<options, input, graphString, g, numberOfLengths,
                   frequencies, counter, skippedGraphs, passedGraphs, stdout,
                   excludedVertices, drv, stack>>

NextHamiltonicity == isHamiltonian_call \/ isK2Hamiltonian_call

SpecHamiltonicity == InitHamiltonicity /\ [][NextHamiltonicity]_vars

\* The subgraph spanned by the vertices not in excluded has a hamiltonian
\* cycle: a cycle on all of them, by enumeration of the paths.
hamiltonianWithout(excluded) ==
    LET order == size(complement(excluded, g.nv))
    IN  /\ order >= 3
        /\ \E p \in pathsOfOrder(order, excluded) : closes(p)

\* The seed path last, start, second lies on a hamiltonian cycle of the
\* subgraph.
seedOnHamiltonianCycle(excluded, startingVertex, secondElemOfPath, lastElemOfPath) ==
    LET order == size(complement(excluded, g.nv))
    IN  /\ order >= 3
        /\ \E p \in pathsOfOrder(order, excluded) :
              /\ closes(p)
              /\ p[1] = secondElemOfPath
              /\ p[2] = startingVertex
              /\ p[3] = lastElemOfPath

\* isHamiltonian(adj, n, excluded, false, false) has returned.
isHamiltonianReturned ==
    /\ pc = "isHamiltonian_returned"
    /\ ~options.allCyclesFlag /\ ~options.verboseFlag

\* C21: isHamiltonian(adj, n, excluded, false, false) returns true iff the
\* subgraph spanned by the vertices not in excluded has a hamiltonian
\* cycle; and canBeHamiltonian with its minimum-degree pruning returns
\* true for every seed path that can be extended to a hamiltonian cycle
\* (and for no other).
HamiltonianIffSpanningCycle ==
    isHamiltonianReturned =>
        /\ length = 1 <=> hamiltonianWithout(excludedVertices)
        /\ LET includedVertices == complement(excludedVertices, g.nv)
           IN  includedVertices # EMPTY =>
                 LET startingVertex == startingVertexOf(includedVertices)
                     seeds == adj(startingVertex) \cap includedVertices
                 IN  \A secondElemOfPath \in seeds, lastElemOfPath \in seeds :
                        secondElemOfPath < lastElemOfPath =>
                          (canBeHamiltonian(
                               hamiltonianSeed(includedVertices, startingVertex,
                                               secondElemOfPath, lastElemOfPath),
                               lastElemOfPath, secondElemOfPath,
                               size(includedVertices), 3)
                           <=> seedOnHamiltonianCycle(
                                   excludedVertices, startingVertex,
                                   secondElemOfPath, lastElemOfPath))

\* isHamiltonian has returned true for a graph on five vertices with one
\* of them excluded.
HamiltonianWitness ==
    /\ isHamiltonianReturned /\ length = 1
    /\ g.nv = 5 /\ size(excludedVertices) = 1

\* With the flags set the value is the same.
HamiltonianWithFlags ==
    pc = "isHamiltonian_returned" =>
        (length = 1 <=> hamiltonianWithout(excludedVertices))

\* C22: isK2Hamiltonian returns true iff for every pair of adjacent
\* vertices v, w the graph with v and w deleted is hamiltonian, for every
\* graph, including those of minimum degree below 3 and those without an
\* edge.
K2HamiltonianIffEveryPair ==
    pc = "isK2Hamiltonian_returned" =>
        (length = 1 <=>
            \A pair \in adjacentPairs : hamiltonianWithout({pair[1], pair[2]}))

\* What the code guarantees: the equivalence for graphs with an edge and
\* for the graph without a vertex; false for every other graph without an
\* edge.
K2HamiltonianWithAnEdge ==
    pc = "isK2Hamiltonian_returned" =>
        IF adjacentPairs # {} \/ g.nv = 0
        THEN length = 1 <=>
                \A pair \in adjacentPairs :
                    hamiltonianWithout({pair[1], pair[2]})
        ELSE length = 0

====
